---- MODULE Spec2Model ----
(***************************************************************************)
(* The asynchronous asset pipeline of cruel_game_engine: the AssetLoader   *)
(* of src/loader.rs (request queue, worker thread, result queue, shared    *)
(* handle counter) and the main context that drains it (src/main.rs); the  *)
(* application's event handlers and parallel submission (src/main.rs); and *)
(* mesh construction with its vertex layouts (src/mesh.rs, src/opengl.rs). *)
(***************************************************************************)
EXTENDS Integers, Sequences, FiniteSets, TLC

(***************************************************************************)
(* Bounds of the model.                                                    *)
(***************************************************************************)
\* requests enqueued over the life of one AssetLoader
MaxRequests == 2
\* generate_texture_handle / generate_mesh_handle calls of the main context
MaxMainMints == 1
\* the frame counter runs through 0..MaxFrames
MaxFrames == 2
\* handle ids 0..MaxHandleId in the inputs of the integration loop and of
\* StaticMesh::new / DynamicMesh::new
MaxHandleId == 1
\* length of a drained vector handed to the integration loop
MaxDrained == 2
\* calls of StaticMesh::new / DynamicMesh::new
MaxMeshes == 3
\* length of the slice handed to request_textures_parallel
MaxParallel == 3
\* texcoord sets and color sets of a VertexData
MaxTexcoordSets == 2
MaxColorSets == 2
\* calls of calculate_stride on its own
MaxStrideCalls == 2
\* vertices of a VertexData handed to interleave_vertex_data
MaxVertices == 2
\* calls of determine_layouts whose results are compared
MaxLayoutCalls == 2
\* calls of append_terminal in one run of the console
MaxAppends == 103
\* lines one drain of the command results appends
MaxBatch == 2

(***************************************************************************)
(* Option and Result values.                                               *)
(***************************************************************************)
None == [some |-> FALSE]
Some(v) == [some |-> TRUE, val |-> v]
Ok(v) == [ok |-> TRUE, val |-> v]
Err(e) == [ok |-> FALSE, err |-> e]

(***************************************************************************)
(* The files the requests can name.  An image file is a grid of grey       *)
(* levels; a model file lists its buffers and, per mesh, its primitives.   *)
(***************************************************************************)
TexturePaths == {"wall.png", "missing.png"}
MeshPaths == {"two.glb", "nopos.gltf", "nobin.glb", "nobuf.gltf", "broken.gltf"}
Names == {"asset"}

\* the accessors of a source primitive: POSITION and NORMAL as given, no other
Prim(pos, nrm) ==
    [positions |-> pos, normals |-> nrm, tangents |-> None,
     tex_coords |-> << None, None >>, colors |-> None, joints |-> None,
     weights |-> None, indices |-> None]

\* COLOR_0 as stored in the file: its component type and one element per vertex
SourceColors(format, values) == Some([format |-> format, values |-> values])

FileSystem(path) ==
    CASE path = "wall.png" ->
           Some([format |-> "image", width |-> 1, height |-> 2,
                 rows |-> << <<10>>, <<20>> >>])
      [] path = "tall.png" ->
           Some([format |-> "image", width |-> 2, height |-> 3,
                 rows |-> << <<10, 11>>, <<20, 21>>, <<30, 31>> >>])
      [] path = "two.glb" ->
           Some([format |-> "gltf", blob |-> Some("bin"), buffers |-> << "Bin" >>,
                 primitives |->
                    << Prim(Some(<<1, 2, 3>>), Some(<<1, 2, 3>>)),
                       [Prim(Some(<<4, 5, 6>>), None) EXCEPT
                           !.colors = SourceColors("RgbU16", <<4, 5, 6>>)] >>])
      [] path = "full.glb" ->
           Some([format |-> "gltf", blob |-> Some("bin"), buffers |-> << "Bin" >>,
                 primitives |->
                    << [Prim(Some(<<1, 2>>), Some(<<3, 4>>)) EXCEPT
                           !.tangents = Some(<<5, 6>>),
                           !.tex_coords = << Some(<<7, 8>>), Some(<<9, 10>>) >>,
                           !.colors = SourceColors("RgbaU8", <<11, 12>>)],
                       [Prim(Some(<<1, 2>>), None) EXCEPT
                           !.tex_coords = << None, Some(<<3, 4>>) >>,
                           !.colors = SourceColors("RgbF32", <<5, 6>>),
                           !.indices = Some(<<1, 0, 1>>)] >>])
      [] path = "skinned.glb" ->
           Some([format |-> "gltf", blob |-> Some("bin"), buffers |-> << "Bin" >>,
                 primitives |->
                    << Prim(Some(<<1, 2>>), Some(<<3, 4>>)),
                       [Prim(Some(<<1, 2>>), None) EXCEPT
                           !.joints = Some(<<3, 4>>),
                           !.weights = Some(<<5, 6>>)] >>])
      [] path = "nopos.gltf" ->
           Some([format |-> "gltf", blob |-> None, buffers |-> << "tri.bin" >>,
                 primitives |-> << Prim(Some(<<1, 2, 3>>), None),
                                   Prim(None, Some(<<1, 2, 3>>)) >>])
      [] path = "nobin.glb" ->
           Some([format |-> "gltf", blob |-> None, buffers |-> << "Bin" >>,
                 primitives |-> << Prim(Some(<<1, 2, 3>>), None) >>])
      [] path = "nobuf.gltf" ->
           Some([format |-> "gltf", blob |-> None, buffers |-> << "lost.bin" >>,
                 primitives |-> << Prim(Some(<<1, 2, 3>>), None) >>])
      [] path = "tri.bin" -> Some([format |-> "raw"])
      [] path = "broken.gltf" -> Some([format |-> "garbage"])
      [] OTHER -> None

(***************************************************************************)
(* image::open(path), flipv and to_rgba8, dimensions and into_raw.         *)
(***************************************************************************)
RECURSIVE Reverse(_)
Reverse(s) == IF s = <<>> THEN <<>> ELSE Append(Reverse(Tail(s)), Head(s))

RECURSIVE Flatten(_)
Flatten(ss) == IF ss = <<>> THEN <<>> ELSE Head(ss) \o Flatten(Tail(ss))

RECURSIVE RowRgba8(_)
RowRgba8(row) ==
    IF row = <<>> THEN <<>>
    ELSE << Head(row), Head(row), Head(row), 255 >> \o RowRgba8(Tail(row))

RECURSIVE RowsRgba8(_)
RowsRgba8(rows) ==
    IF rows = <<>> THEN <<>> ELSE << RowRgba8(Head(rows)) >> \o RowsRgba8(Tail(rows))

\* mutant: the image is not flipped
image_open_unflipped(path) ==
    LET f == FileSystem(path) IN
    IF f.some /\ f.val.format = "image"
    THEN Ok([width |-> f.val.width, height |-> f.val.height,
             data |-> Flatten(RowsRgba8(f.val.rows))])
    ELSE Err("image error")

image_open(path) ==
    LET f == FileSystem(path) IN
    IF f.some /\ f.val.format = "image"
    THEN Ok([width |-> f.val.width, height |-> f.val.height,
             data |-> Flatten(RowsRgba8(Reverse(f.val.rows)))])
    ELSE Err("image error")

LoadedTexture(path, name, img) ==
    [kind |-> "Texture", path |-> path, name |-> name,
     width |-> img.width, height |-> img.height, data |-> img.data]

(***************************************************************************)
(* load_gltf_full(path): open, read every buffer, then one LoadedPrimitive *)
(* per source primitive; the first failure aborts the whole load.          *)
(***************************************************************************)
RECURSIVE ReadBuffers(_, _)
ReadBuffers(buffers, blob) ==
    IF buffers = <<>> THEN Ok(<<>>)
    ELSE LET src == Head(buffers)
             data == IF src = "Bin"
                     THEN (IF blob.some THEN Ok(blob.val)
                           ELSE Err("GLB binary chunk missing"))
                     ELSE (IF FileSystem(src).some THEN Ok(src)
                           ELSE Err("Buffer read error"))
         IN IF ~data.ok THEN data
            ELSE LET rest == ReadBuffers(Tail(buffers), blob)
                 IN IF rest.ok THEN Ok(<< data.val >> \o rest.val) ELSE rest

\* c as f32 / 255.0
NormalizedU8(c) == [u8 |-> c, over |-> 255]

\* read_tex_coords(0) and read_tex_coords(1): each set that is present is pushed
ReadTexCoords(tex_coords) ==
    (IF tex_coords[1].some THEN << tex_coords[1].val >> ELSE <<>>)
       \o (IF tex_coords[2].some THEN << tex_coords[2].val >> ELSE <<>>)

\* match colors_reader { .. }: 8-bit channels are scaled, float channels are
\* taken as they are, 16-bit channels print "TODO" and push nothing
ReadColors(colors) ==
    IF ~colors.some THEN <<>>
    ELSE LET c == colors.val IN
         CASE c.format = "RgbU8" ->
                << [format |-> "Rgb",
                    values |-> [i \in DOMAIN c.values |-> NormalizedU8(c.values[i])]] >>
           [] c.format = "RgbaU8" ->
                << [format |-> "Rgba",
                    values |-> [i \in DOMAIN c.values |-> NormalizedU8(c.values[i])]] >>
           [] c.format = "RgbF32" -> << [format |-> "Rgb", values |-> c.values] >>
           [] c.format = "RgbaF32" -> << [format |-> "Rgba", values |-> c.values] >>
           [] c.format \in {"RgbU16", "RgbaU16"} -> <<>>

\* VertexData { .. } filled from the reader, and the indices
LoadedPrimitive(p) ==
    [vertex_data |-> [positions |-> p.positions.val, normals |-> p.normals,
                      tangents |-> p.tangents,
                      texcoords |-> ReadTexCoords(p.tex_coords),
                      colors |-> ReadColors(p.colors),
                      joints |-> p.joints, weights |-> p.weights],
     indices |-> p.indices]

\* mutant: a primitive without positions ends the loop and the primitives read
\* so far are returned as the mesh
RECURSIVE ReadPrimitives_partial(_, _)
ReadPrimitives_partial(prims, acc) ==
    IF prims = <<>> THEN Ok(acc)
    ELSE IF Head(prims).positions.some
         THEN ReadPrimitives_partial(Tail(prims),
                                     Append(acc, LoadedPrimitive(Head(prims))))
         ELSE Ok(acc)

\* mutant: each primitive read is put in front of those read before
RECURSIVE ReadPrimitives_reversed(_, _)
ReadPrimitives_reversed(prims, acc) ==
    IF prims = <<>> THEN Ok(acc)
    ELSE IF Head(prims).positions.some
         THEN ReadPrimitives_reversed(Tail(prims),
                                      << LoadedPrimitive(Head(prims)) >> \o acc)
         ELSE Err("GLTF mesh is missing positions!")

RECURSIVE ReadPrimitives(_, _)
ReadPrimitives(prims, acc) ==
    IF prims = <<>> THEN Ok(acc)
    ELSE IF Head(prims).positions.some
         THEN ReadPrimitives(Tail(prims), Append(acc, LoadedPrimitive(Head(prims))))
         ELSE Err("GLTF mesh is missing positions!")

load_gltf_full(path) ==
    LET f == FileSystem(path) IN
    IF ~(f.some /\ f.val.format = "gltf") THEN Err("GLTF open error")
    ELSE LET raw_buffers == ReadBuffers(f.val.buffers, f.val.blob) IN
         IF ~raw_buffers.ok THEN raw_buffers
         ELSE LET primitives == ReadPrimitives(f.val.primitives, <<>>) IN
              IF ~primitives.ok THEN primitives
              ELSE Ok([kind |-> "Mesh", name |-> path, path |-> path,
                       primitives |-> primitives.val])

(***************************************************************************)
(* Requests, handles.                                                      *)
(***************************************************************************)
LoadTexture(path, name, rid) ==
    [kind |-> "LoadTexture", path |-> path, name |-> name, rid |-> rid]
LoadMesh(path, name, rid) ==
    [kind |-> "LoadMesh", path |-> path, name |-> name, rid |-> rid]

TextureHandle(id) == [kind |-> "Texture", id |-> id]
MeshHandle(id) == [kind |-> "Mesh", id |-> id]
MaterialHandle(id) == [kind |-> "Material", id |-> id]
ShaderHandle(id) == [kind |-> "Shader", id |-> id]

NoRequest == [kind |-> "none"]
NoAsset == [kind |-> "none"]
NoHandle == [kind |-> "none"]


(***************************************************************************)
(* mesh.rs: the vertex layout of a primitive, its stride, its interleaved  *)
(* vertex buffer, and opengl.rs: the render data built from them.  A panic *)
(* is the result Err(message).                                             *)
(***************************************************************************)
SizeOfF32 == 4
SizeOfU16 == 2

Layout(index, size, gl_type, normalized, offset) ==
    [index |-> index, size |-> size, gl_type |-> gl_type, normalized |-> normalized,
     offset |-> offset]

\* layouts.push(Layout { index: attrib_index, size, gl_type, offset });
\* offset += size * size_of; attrib_index += 1
PushLayout(st, size, gl_type, size_of) ==
    [layouts |-> Append(st.layouts, Layout(st.attrib_index, size, gl_type, FALSE, st.offset)),
     offset |-> st.offset + size * size_of,
     attrib_index |-> st.attrib_index + 1]

RECURSIVE PushTexcoords(_, _)
PushTexcoords(st, texcoords) ==
    IF texcoords = <<>> THEN st
    ELSE PushTexcoords(PushLayout(st, 2, "FLOAT", SizeOfF32), Tail(texcoords))

ColorSize(color) == IF color.format = "Rgb" THEN 3 ELSE 4

RECURSIVE PushColors(_, _)
PushColors(st, colors) ==
    IF colors = <<>> THEN st
    ELSE PushColors(PushLayout(st, ColorSize(Head(colors)), "FLOAT", SizeOfF32),
                    Tail(colors))

\* mutant: the tangents are laid out before the normals
determine_layouts_tangents_first(vertex_data) ==
    LET position == PushLayout([layouts |-> <<>>, offset |-> 0, attrib_index |-> 0],
                               3, "FLOAT", SizeOfF32)
        tangents == IF vertex_data.tangents.some
                    THEN PushLayout(position, 4, "FLOAT", SizeOfF32) ELSE position
        normals == IF vertex_data.normals.some
                   THEN PushLayout(tangents, 3, "FLOAT", SizeOfF32) ELSE tangents
        texcoords == PushTexcoords(normals, vertex_data.texcoords)
        colors == PushColors(texcoords, vertex_data.colors)
        joints == IF vertex_data.joints.some
                  THEN PushLayout(colors, 4, "UNSIGNED_SHORT", SizeOfU16) ELSE colors
        weights == IF vertex_data.weights.some
                   THEN PushLayout(joints, 4, "FLOAT", SizeOfF32) ELSE joints
    IN weights.layouts

\* mutant: the attributes are laid out one after the other (all positions, then
\* all normals, ..), so the offsets grow with the number of vertices
determine_layouts_planar(vertex_data) ==
    LET position == PushLayout([layouts |-> <<>>, offset |-> 0, attrib_index |-> 0],
                               3, "FLOAT", SizeOfF32)
        normals == IF vertex_data.normals.some
                   THEN PushLayout(position, 3, "FLOAT", SizeOfF32) ELSE position
        tangents == IF vertex_data.tangents.some
                    THEN PushLayout(normals, 4, "FLOAT", SizeOfF32) ELSE normals
        texcoords == PushTexcoords(tangents, vertex_data.texcoords)
        colors == PushColors(texcoords, vertex_data.colors)
        joints == IF vertex_data.joints.some
                  THEN PushLayout(colors, 4, "UNSIGNED_SHORT", SizeOfU16) ELSE colors
        weights == IF vertex_data.weights.some
                   THEN PushLayout(joints, 4, "FLOAT", SizeOfF32) ELSE joints
    IN [k \in DOMAIN weights.layouts |->
           [weights.layouts[k] EXCEPT !.offset = @ * Len(vertex_data.positions)]]

determine_layouts(vertex_data) ==
    LET position == PushLayout([layouts |-> <<>>, offset |-> 0, attrib_index |-> 0],
                               3, "FLOAT", SizeOfF32)
        normals == IF vertex_data.normals.some
                   THEN PushLayout(position, 3, "FLOAT", SizeOfF32) ELSE position
        tangents == IF vertex_data.tangents.some
                    THEN PushLayout(normals, 4, "FLOAT", SizeOfF32) ELSE normals
        texcoords == PushTexcoords(tangents, vertex_data.texcoords)
        colors == PushColors(texcoords, vertex_data.colors)
        joints == IF vertex_data.joints.some
                  THEN PushLayout(colors, 4, "UNSIGNED_SHORT", SizeOfU16) ELSE colors
        weights == IF vertex_data.weights.some
                   THEN PushLayout(joints, 4, "FLOAT", SizeOfF32) ELSE joints
    IN weights.layouts

\* mutant: every component is taken to be four bytes wide
calculate_stride_all_float(layouts) ==
    IF layouts # <<>>
    THEN LET last == layouts[Len(layouts)] IN Ok(last.offset + last.size * 4)
    ELSE Err("No layouts provided to calculate stride!")

calculate_stride(layouts) ==
    IF layouts # <<>>
    THEN LET last == layouts[Len(layouts)] IN
         CASE last.gl_type = "FLOAT" -> Ok(last.offset + last.size * 4)
           [] last.gl_type = "UNSIGNED_SHORT" -> Ok(last.offset + last.size * 2)
           [] OTHER -> Err("Unsupported attribute type")
    ELSE Err("No layouts provided to calculate stride!")

\* an attribute element [f32; n]: the n components of the value x
Components(x, n) == [k \in 1..n |-> x]

RECURSIVE RowTexcoords(_, _)
RowTexcoords(texcoords, i) ==
    IF texcoords = <<>> THEN <<>>
    ELSE Components(Head(texcoords)[i], 2) \o RowTexcoords(Tail(texcoords), i)

RECURSIVE RowColors(_, _)
RowColors(colors, i) ==
    IF colors = <<>> THEN <<>>
    ELSE Components(Head(colors).values[i], ColorSize(Head(colors)))
            \o RowColors(Tail(colors), i)

\* mutant: the colors of a vertex are written before its texcoords
Row_colors_first(vertex_data, i) ==
    Components(vertex_data.positions[i], 3)
       \o (IF vertex_data.normals.some
           THEN Components(vertex_data.normals.val[i], 3) ELSE <<>>)
       \o (IF vertex_data.tangents.some
           THEN Components(vertex_data.tangents.val[i], 4) ELSE <<>>)
       \o RowColors(vertex_data.colors, i)
       \o RowTexcoords(vertex_data.texcoords, i)

\* the floats of vertex i
Row(vertex_data, i) ==
    Components(vertex_data.positions[i], 3)
       \o (IF vertex_data.normals.some
           THEN Components(vertex_data.normals.val[i], 3) ELSE <<>>)
       \o (IF vertex_data.tangents.some
           THEN Components(vertex_data.tangents.val[i], 4) ELSE <<>>)
       \o RowTexcoords(vertex_data.texcoords, i)
       \o RowColors(vertex_data.colors, i)

RECURSIVE Rows(_, _)
Rows(vertex_data, i) ==
    IF i > Len(vertex_data.positions) THEN <<>>
    ELSE Row(vertex_data, i) \o Rows(vertex_data, i + 1)

\* the panic sits inside the loop over the vertices
interleave_vertex_data(vertex_data) ==
    IF /\ Len(vertex_data.positions) > 0
       /\ vertex_data.joints.some \/ vertex_data.weights.some
    THEN Err("interleave_vertex_data: joints/weights not implemented yet")
    ELSE Ok(Rows(vertex_data, 1))

\* mutant: an element buffer only when there are indices
RenderData_new_ebo_if_indexed(gl, vertices, indices, stride, layouts) ==
    [vao |-> gl + 1, vbo |-> gl + 2,
     ebo |-> IF indices = <<>> THEN None ELSE Some(gl + 3), stride |-> stride,
     layouts |-> layouts,
     vertex_count |-> Len(vertices) \div (stride \div SizeOfF32),
     index_count |-> Len(indices)]

\* StaticRenderData::new / DynamicRenderData::new: a vertex array and two buffers
\* are created in the context, which has handed out gl objects so far
RenderData_new(gl, vertices, indices, stride, layouts) ==
    [vao |-> gl + 1, vbo |-> gl + 2, ebo |-> Some(gl + 3), stride |-> stride,
     layouts |-> layouts,
     vertex_count |-> Len(vertices) \div (stride \div SizeOfF32),
     index_count |-> Len(indices)]

\* buffer_data_u8_slice: the vertices go into the vbo, the indices into the ebo
BufferData(buffers, gl, vertices, indices) ==
    [b \in DOMAIN buffers \cup {gl + 2, gl + 3} |->
        IF b = gl + 2 THEN vertices ELSE IF b = gl + 3 THEN indices ELSE buffers[b]]

\* mutant: layout, stride and vertices are derived once, from the first primitive
RECURSIVE BuildPrimitives_first_only(_, _, _, _, _)
BuildPrimitives_first_only(primitives, i, gl, buffers, acc) ==
    IF i > Len(primitives) THEN [ok |-> TRUE, val |-> acc, gl |-> gl, buffers |-> buffers]
    ELSE LET primitive == primitives[1]
             layouts == determine_layouts(primitive.vertex_data)
             stride == calculate_stride(layouts)
             interleaved_vertices == interleave_vertex_data(primitive.vertex_data)
             indices == IF primitives[i].indices.some
                        THEN primitives[i].indices.val ELSE <<>>
         IN IF ~stride.ok
            THEN [ok |-> FALSE, err |-> stride.err, gl |-> gl, buffers |-> buffers]
            ELSE IF ~interleaved_vertices.ok
            THEN [ok |-> FALSE, err |-> interleaved_vertices.err, gl |-> gl,
                  buffers |-> buffers]
            ELSE BuildPrimitives_first_only(
                     primitives, i + 1, gl + 3,
                     BufferData(buffers, gl, interleaved_vertices.val, indices),
                     Append(acc,
                            [primitive_index |-> i - 1,
                             render_data |->
                                 Some(RenderData_new(gl, interleaved_vertices.val,
                                                     indices, stride.val, layouts))]))

\* for (i, primitive) in loaded_mesh.primitives.iter().enumerate() { .. }; a panic
\* leaves behind the objects created for the primitives before
RECURSIVE BuildPrimitives(_, _, _, _, _)
BuildPrimitives(primitives, i, gl, buffers, acc) ==
    IF i > Len(primitives) THEN [ok |-> TRUE, val |-> acc, gl |-> gl, buffers |-> buffers]
    ELSE LET primitive == primitives[i]
             layouts == determine_layouts(primitive.vertex_data)
             stride == calculate_stride(layouts)
             interleaved_vertices == interleave_vertex_data(primitive.vertex_data)
             indices == IF primitive.indices.some THEN primitive.indices.val ELSE <<>>
         IN IF ~stride.ok
            THEN [ok |-> FALSE, err |-> stride.err, gl |-> gl, buffers |-> buffers]
            ELSE IF ~interleaved_vertices.ok
            THEN [ok |-> FALSE, err |-> interleaved_vertices.err, gl |-> gl,
                  buffers |-> buffers]
            ELSE BuildPrimitives(
                     primitives, i + 1, gl + 3,
                     BufferData(buffers, gl, interleaved_vertices.val, indices),
                     Append(acc,
                            [primitive_index |-> i - 1,
                             render_data |->
                                 Some(RenderData_new(gl, interleaved_vertices.val,
                                                     indices, stride.val, layouts))]))

\* StaticMesh { .. } / DynamicMesh { .. }
Mesh(kind, name, handle, primitives) ==
    [kind |-> kind, name |-> name, handle |-> handle, primitives |-> primitives,
     translation |-> <<0, 0, 0>>, rotation |-> <<0, 0, 0>>, scale |-> <<1, 1, 1>>]

(***************************************************************************)
(* State.  The fields of AssetLoader, the two channels, the worker         *)
(* thread's position and locals, the main context's position and locals.   *)
(* submitted, processed, failed, published, minted and polled are history  *)
(* variables: they record what happened and guard nothing.                 *)
(***************************************************************************)
VARIABLES
    request_queue,        \* channel request_tx -> request_rx
    result_queue,         \* channel result_tx -> result_rx
    next_handle_id,       \* Arc<Mutex<usize>>: the guarded value
    counter_lock,         \* who holds the Mutex: "none", "worker" or "main"
    loader_alive,         \* the AssetLoader (request_tx, result_rx) exists
    loaded_texture_data,  \* HashMap<TextureHandle, LoadedTexture>
    loaded_mesh_data,     \* HashMap<MeshHandle, LoadedMesh>
    worker_pc,            \* position of the worker thread
    request,              \* worker: the request being processed
    worker_asset,         \* worker: loaded_texture / loaded_mesh
    worker_handle,        \* worker: texture_handle / mesh_handle
    main_pc,              \* position of the main context
    loaded,               \* poll_loaded: the vector being filled
    main_handle,          \* generate_*_handle: the handle being minted
    main_mints,           \* number of generate_*_handle calls made
    submitted,            \* every request enqueued, in enqueue order
    processed,            \* rid of every request the worker received, in order
    failed,               \* rid of every request whose decode failed
    published,            \* every item sent on result_tx, in send order
    minted,               \* every handle minted (by whom, for which rid), in mint order
    polled,               \* concatenation of all poll_loaded return values
    loaded_material_data, \* HashMap<MaterialHandle, LoadedMaterial>
    compiled_shader_programs, \* HashMap<ShaderHandle, CompiledShaderProgram>
    window_created,       \* App::resumed has run: self.window is Some
    frames,               \* RedrawRequested events handled, modulo MaxFrames + 1
    meshes,               \* every StaticMesh / DynamicMesh constructed, in order
    gl_objects,           \* number of objects created in the glow::Context
    gl_buffers,           \* glow::Context: the data stored in each buffer object
    mesh_calls,           \* every call of StaticMesh::new / DynamicMesh::new, in order
    static_meshes,        \* Level::static_meshes of the current scene
    terminal_lines,       \* Gui::terminal_lines
    selected_object,      \* Gui::selected_object
    properties_panel,     \* what the Properties panel showed last, None before
    draw_calls,           \* glow::Context: the draw calls of the latest render, None before
    terminal_appends,     \* number of append_terminal calls made (history)
    par_requests,         \* request_textures_parallel: the slice of (path, name)
    loader_lock,          \* Mutex<AssetLoader>: None, or the thread holding it and its item
    sent_by,              \* thread and slice index of every request sent, in send order
    vertex_data,          \* determine_layouts: its argument
    layouts,              \* the Vec<Layout> determine_layouts returned, empty before
    stride_calls,         \* every call of calculate_stride: its argument and result
    interleaved,          \* what interleave_vertex_data returned, None before
    layout_calls          \* the calls of determine_layouts: argument and result

app_vars == << window_created, frames >>
mesh_vars == << meshes, gl_objects, gl_buffers, mesh_calls, static_meshes, terminal_lines,
               selected_object, properties_panel, draw_calls, terminal_appends >>
par_vars == << par_requests, loader_lock, sent_by >>
layout_vars == << vertex_data, layouts, stride_calls, interleaved, layout_calls >>
ext_vars == << app_vars, mesh_vars, par_vars, layout_vars >>

vars == << request_queue, result_queue, next_handle_id, counter_lock, loader_alive,
           loaded_texture_data, loaded_mesh_data, worker_pc, request, worker_asset,
           worker_handle, main_pc, loaded, main_handle, main_mints, submitted,
           processed, failed, published, minted, polled, loaded_material_data,
           compiled_shader_programs, ext_vars >>

shared_vars == << request_queue, result_queue, next_handle_id, counter_lock >>
table_vars == << loaded_texture_data, loaded_mesh_data, loaded_material_data,
                 compiled_shader_programs >>
worker_vars == << worker_pc, request, worker_asset, worker_handle >>
main_vars == << main_pc, loaded, main_handle, main_mints, loader_alive >>

\* AssetLoader::new
Init ==
    /\ request_queue = <<>>
    /\ result_queue = <<>>
    /\ next_handle_id = 0
    /\ counter_lock = "none"
    /\ loader_alive = TRUE
    /\ loaded_texture_data = <<>>
    /\ loaded_mesh_data = <<>>
    /\ worker_pc = "recv"
    /\ request = NoRequest
    /\ worker_asset = NoAsset
    /\ worker_handle = NoHandle
    /\ main_pc = "idle"
    /\ loaded = <<>>
    /\ main_handle = NoHandle
    /\ main_mints = 0
    /\ submitted = <<>>
    /\ processed = <<>>
    /\ failed = <<>>
    /\ published = <<>>
    /\ minted = <<>>
    /\ polled = <<>>
    /\ loaded_material_data = <<>>
    /\ compiled_shader_programs = <<>>
    /\ window_created = FALSE
    /\ frames = 0
    /\ meshes = <<>>
    /\ gl_objects = 0
    /\ gl_buffers = <<>>
    /\ mesh_calls = <<>>
    /\ static_meshes = <<>>
    /\ terminal_lines = <<>>
    /\ selected_object = None
    /\ properties_panel = None
    /\ draw_calls = None
    /\ terminal_appends = 0
    /\ par_requests = <<>>
    /\ loader_lock = None
    /\ sent_by = <<>>
    /\ vertex_data = None
    /\ layouts = <<>>
    /\ stride_calls = <<>>
    /\ interleaved = None
    /\ layout_calls = {}

(***************************************************************************)
(* The channels and the Mutex.                                             *)
(***************************************************************************)
\* mutant: the item is enqueued twice
send_twice(queue, item) == Append(Append(queue, item), item)
\* mutant: the item is put at the front of the queue
send_front(queue, item) == << item >> \o queue
\* Sender::send on an unbounded channel: append at the back
send(queue, item) == Append(queue, item)
\* mutant: the newest item is handed out instead of the oldest
recv_item_newest(queue) == queue[Len(queue)]
\* mutant: the item handed out stays in the queue
recv_rest_keep(queue) == queue
\* Receiver::recv / try_recv: the item at the front
recv_item(queue) == Head(queue)
recv_rest(queue) == Tail(queue)
\* mutant: the counter is read and written without mutual exclusion
LockFree_unguarded == TRUE
\* Mutex::lock returns only when nobody holds the lock
LockFree == counter_lock = "none"

(***************************************************************************)
(* The worker thread: for request in request_rx { match request { .. } }   *)
(***************************************************************************)
\* mutant: the handle is minted right after the receive, before any decoding
WorkerRecv_skip_decode ==
    /\ worker_pc = "recv"
    /\ request_queue # <<>>
    /\ request' = recv_item(request_queue)
    /\ request_queue' = recv_rest(request_queue)
    /\ worker_pc' = IF request'.kind = "LoadTexture" THEN "texture_lock" ELSE "mesh_lock"
    /\ processed' = Append(processed, request'.rid)
    /\ UNCHANGED << result_queue, next_handle_id, counter_lock, table_vars, worker_asset,
                    worker_handle, main_vars, submitted, failed, published, minted,
                    polled >>
    /\ UNCHANGED ext_vars

\* the iterator yields the next request
WorkerRecv ==
    /\ worker_pc = "recv"
    /\ request_queue # <<>>
    /\ request' = recv_item(request_queue)
    /\ request_queue' = recv_rest(request_queue)
    /\ worker_pc' = IF request'.kind = "LoadTexture" THEN "texture_open" ELSE "mesh_load"
    /\ processed' = Append(processed, request'.rid)
    /\ UNCHANGED << result_queue, next_handle_id, counter_lock, table_vars, worker_asset,
                    worker_handle, main_vars, submitted, failed, published, minted,
                    polled >>
    /\ UNCHANGED ext_vars

\* mutant: the worker does not notice the closed channel and keeps waiting
WorkerExit_spin ==
    /\ worker_pc = "recv"
    /\ request_queue = <<>>
    /\ ~loader_alive
    /\ UNCHANGED vars

\* the iterator ends: the queue is empty and every sender is gone
WorkerExit ==
    /\ worker_pc = "recv"
    /\ request_queue = <<>>
    /\ ~loader_alive
    /\ worker_pc' = "done"
    /\ UNCHANGED << shared_vars, table_vars, request, worker_asset, worker_handle,
                    main_vars, submitted, processed, failed, published, minted,
                    polled >>
    /\ UNCHANGED ext_vars

\* mutant: a failed image::open ends the worker's loop
WorkerTextureOpen_break ==
    /\ worker_pc = "texture_open"
    /\ LET img == image_open(request.path) IN
       IF img.ok
       THEN /\ worker_asset' = LoadedTexture(request.path, request.name, img.val)
            /\ worker_pc' = "texture_lock"
            /\ UNCHANGED << request, failed >>
       ELSE /\ worker_asset' = NoAsset
            /\ worker_pc' = "done"
            /\ request' = NoRequest
            /\ failed' = Append(failed, request.rid)
    /\ UNCHANGED << shared_vars, table_vars, worker_handle, main_vars, submitted,
                    processed, published, minted, polled >>
    /\ UNCHANGED ext_vars

\* mutant: the counter is advanced before the outcome of image::open is looked at
WorkerTextureOpen_counts_first ==
    /\ worker_pc = "texture_open"
    /\ next_handle_id' = next_handle_id + 1
    /\ LET img == image_open(request.path) IN
       IF img.ok
       THEN /\ worker_asset' = LoadedTexture(request.path, request.name, img.val)
            /\ worker_pc' = "texture_lock"
            /\ UNCHANGED << request, failed >>
       ELSE /\ worker_asset' = NoAsset
            /\ worker_pc' = "recv"
            /\ request' = NoRequest
            /\ failed' = Append(failed, request.rid)
    /\ UNCHANGED << request_queue, result_queue, counter_lock, table_vars, worker_handle,
                    main_vars, submitted, processed, published, minted, polled >>
    /\ UNCHANGED ext_vars

\* LoadTexture: image::open .. LoadedTexture { .. }, or log and continue
WorkerTextureOpen ==
    /\ worker_pc = "texture_open"
    /\ LET img == image_open(request.path) IN
       IF img.ok
       THEN /\ worker_asset' = LoadedTexture(request.path, request.name, img.val)
            /\ worker_pc' = "texture_lock"
            /\ UNCHANGED << request, failed >>
       ELSE /\ worker_asset' = NoAsset
            /\ worker_pc' = "recv"
            /\ request' = NoRequest
            /\ failed' = Append(failed, request.rid)
    /\ UNCHANGED << shared_vars, table_vars, worker_handle, main_vars, submitted,
                    processed, published, minted, polled >>
    /\ UNCHANGED ext_vars

\* LoadTexture: lock the counter, let handle = TextureHandle(*id)
WorkerTextureLock ==
    /\ worker_pc = "texture_lock"
    /\ LockFree
    /\ counter_lock' = "worker"
    /\ worker_handle' = TextureHandle(next_handle_id)
    /\ worker_pc' = "texture_incr"
    /\ UNCHANGED << request_queue, result_queue, next_handle_id, table_vars, request,
                    worker_asset, main_vars, submitted, processed, failed, published,
                    minted, polled >>
    /\ UNCHANGED ext_vars

\* mutant: the guard lives on until the result has been sent
WorkerTextureIncr_keeps_guard ==
    /\ worker_pc = "texture_incr"
    /\ next_handle_id' = next_handle_id + 1
    /\ counter_lock' = "worker"
    /\ minted' = Append(minted, [handle |-> worker_handle, by |-> "worker",
                                 rid |-> request.rid])
    /\ worker_pc' = "texture_send"
    /\ UNCHANGED << request_queue, result_queue, table_vars, request, worker_asset,
                    worker_handle, main_vars, submitted, processed, failed, published,
                    polled >>
    /\ UNCHANGED ext_vars

\* LoadTexture: *id += 1, the guard is dropped
WorkerTextureIncr ==
    /\ worker_pc = "texture_incr"
    /\ next_handle_id' = next_handle_id + 1
    /\ counter_lock' = "none"
    /\ minted' = Append(minted, [handle |-> worker_handle, by |-> "worker",
                                 rid |-> request.rid])
    /\ worker_pc' = "texture_send"
    /\ UNCHANGED << request_queue, result_queue, table_vars, request, worker_asset,
                    worker_handle, main_vars, submitted, processed, failed, published,
                    polled >>
    /\ UNCHANGED ext_vars

\* mutant: a failed send is logged and the loop goes on with the next request
WorkerTextureSend_continue ==
    /\ worker_pc = "texture_send"
    /\ IF loader_alive
       THEN /\ result_queue' = send(result_queue, [handle |-> worker_handle,
                                                   asset |-> worker_asset,
                                                   rid |-> request.rid])
            /\ published' = Append(published, [handle |-> worker_handle,
                                               asset |-> worker_asset,
                                               rid |-> request.rid])
            /\ worker_pc' = "recv"
       ELSE /\ worker_pc' = "recv"
            /\ UNCHANGED << result_queue, published >>
    /\ request' = NoRequest
    /\ worker_asset' = NoAsset
    /\ worker_handle' = NoHandle
    /\ UNCHANGED << request_queue, next_handle_id, counter_lock, table_vars, main_vars,
                    submitted, processed, failed, minted, polled >>
    /\ UNCHANGED ext_vars

\* LoadTexture: result_tx.send((handle, asset)), break when the receiver is gone
WorkerTextureSend ==
    /\ worker_pc = "texture_send"
    /\ IF loader_alive
       THEN /\ result_queue' = send(result_queue, [handle |-> worker_handle,
                                                   asset |-> worker_asset,
                                                   rid |-> request.rid])
            /\ published' = Append(published, [handle |-> worker_handle,
                                               asset |-> worker_asset,
                                               rid |-> request.rid])
            /\ worker_pc' = "recv"
       ELSE /\ worker_pc' = "done"
            /\ UNCHANGED << result_queue, published >>
    /\ request' = NoRequest
    /\ worker_asset' = NoAsset
    /\ worker_handle' = NoHandle
    /\ UNCHANGED << request_queue, next_handle_id, counter_lock, table_vars, main_vars,
                    submitted, processed, failed, minted, polled >>
    /\ UNCHANGED ext_vars

\* mutant: a failed load_gltf_full ends the worker's loop
WorkerMeshLoad_break ==
    /\ worker_pc = "mesh_load"
    /\ LET res == load_gltf_full(request.path) IN
       IF res.ok
       THEN /\ worker_asset' = [res.val EXCEPT !.name = request.name]
            /\ worker_pc' = "mesh_lock"
            /\ UNCHANGED << request, failed >>
       ELSE /\ worker_asset' = NoAsset
            /\ worker_pc' = "done"
            /\ request' = NoRequest
            /\ failed' = Append(failed, request.rid)
    /\ UNCHANGED << shared_vars, table_vars, worker_handle, main_vars, submitted,
                    processed, published, minted, polled >>
    /\ UNCHANGED ext_vars

\* mutant: the name load_gltf_full took from the file is kept
WorkerMeshLoad_keeps_file_name ==
    /\ worker_pc = "mesh_load"
    /\ LET res == load_gltf_full(request.path) IN
       IF res.ok
       THEN /\ worker_asset' = res.val
            /\ worker_pc' = "mesh_lock"
            /\ UNCHANGED << request, failed >>
       ELSE /\ worker_asset' = NoAsset
            /\ worker_pc' = "recv"
            /\ request' = NoRequest
            /\ failed' = Append(failed, request.rid)
    /\ UNCHANGED << shared_vars, table_vars, worker_handle, main_vars, submitted,
                    processed, published, minted, polled >>
    /\ UNCHANGED ext_vars

\* LoadMesh: load_gltf_full, loaded_mesh.name = name, or log (and continue)
WorkerMeshLoad ==
    /\ worker_pc = "mesh_load"
    /\ LET res == load_gltf_full(request.path) IN
       IF res.ok
       THEN /\ worker_asset' = [res.val EXCEPT !.name = request.name]
            /\ worker_pc' = "mesh_lock"
            /\ UNCHANGED << request, failed >>
       ELSE /\ worker_asset' = NoAsset
            /\ worker_pc' = "recv"
            /\ request' = NoRequest
            /\ failed' = Append(failed, request.rid)
    /\ UNCHANGED << shared_vars, table_vars, worker_handle, main_vars, submitted,
                    processed, published, minted, polled >>
    /\ UNCHANGED ext_vars

\* mutant: the mesh is published under a texture handle
WorkerMeshLock_texture_handle ==
    /\ worker_pc = "mesh_lock"
    /\ LockFree
    /\ counter_lock' = "worker"
    /\ worker_handle' = TextureHandle(next_handle_id)
    /\ worker_pc' = "mesh_incr"
    /\ UNCHANGED << request_queue, result_queue, next_handle_id, table_vars, request,
                    worker_asset, main_vars, submitted, processed, failed, published,
                    minted, polled >>
    /\ UNCHANGED ext_vars

\* LoadMesh: lock the counter, let handle = MeshHandle(*id)
WorkerMeshLock ==
    /\ worker_pc = "mesh_lock"
    /\ LockFree
    /\ counter_lock' = "worker"
    /\ worker_handle' = MeshHandle(next_handle_id)
    /\ worker_pc' = "mesh_incr"
    /\ UNCHANGED << request_queue, result_queue, next_handle_id, table_vars, request,
                    worker_asset, main_vars, submitted, processed, failed, published,
                    minted, polled >>
    /\ UNCHANGED ext_vars

\* LoadMesh: *id += 1, the guard is dropped
WorkerMeshIncr ==
    /\ worker_pc = "mesh_incr"
    /\ next_handle_id' = next_handle_id + 1
    /\ counter_lock' = "none"
    /\ minted' = Append(minted, [handle |-> worker_handle, by |-> "worker",
                                 rid |-> request.rid])
    /\ worker_pc' = "mesh_send"
    /\ UNCHANGED << request_queue, result_queue, table_vars, request, worker_asset,
                    worker_handle, main_vars, submitted, processed, failed, published,
                    polled >>
    /\ UNCHANGED ext_vars

\* mutant: the worker also puts the mesh into the table itself
WorkerMeshSend_inserts ==
    /\ worker_pc = "mesh_send"
    /\ IF loader_alive
       THEN /\ result_queue' = send(result_queue, [handle |-> worker_handle,
                                                   asset |-> worker_asset,
                                                   rid |-> request.rid])
            /\ published' = Append(published, [handle |-> worker_handle,
                                               asset |-> worker_asset,
                                               rid |-> request.rid])
            /\ worker_pc' = "recv"
       ELSE /\ worker_pc' = "done"
            /\ UNCHANGED << result_queue, published >>
    /\ loaded_mesh_data' =
          [k \in DOMAIN loaded_mesh_data \cup {worker_handle} |->
              IF k = worker_handle THEN worker_asset ELSE loaded_mesh_data[k]]
    /\ request' = NoRequest
    /\ worker_asset' = NoAsset
    /\ worker_handle' = NoHandle
    /\ UNCHANGED << request_queue, next_handle_id, counter_lock, loaded_texture_data,
                    loaded_material_data, compiled_shader_programs, main_vars,
                    submitted, processed, failed, minted, polled >>
    /\ UNCHANGED ext_vars

\* LoadMesh: result_tx.send((handle, asset)), break when the receiver is gone
WorkerMeshSend ==
    /\ worker_pc = "mesh_send"
    /\ IF loader_alive
       THEN /\ result_queue' = send(result_queue, [handle |-> worker_handle,
                                                   asset |-> worker_asset,
                                                   rid |-> request.rid])
            /\ published' = Append(published, [handle |-> worker_handle,
                                               asset |-> worker_asset,
                                               rid |-> request.rid])
            /\ worker_pc' = "recv"
       ELSE /\ worker_pc' = "done"
            /\ UNCHANGED << result_queue, published >>
    /\ request' = NoRequest
    /\ worker_asset' = NoAsset
    /\ worker_handle' = NoHandle
    /\ UNCHANGED << request_queue, next_handle_id, counter_lock, table_vars, main_vars,
                    submitted, processed, failed, minted, polled >>
    /\ UNCHANGED ext_vars

Worker ==
    \/ WorkerRecv
    \/ WorkerExit
    \/ WorkerTextureOpen
    \/ WorkerTextureLock
    \/ WorkerTextureIncr
    \/ WorkerTextureSend
    \/ WorkerMeshLoad
    \/ WorkerMeshLock
    \/ WorkerMeshIncr
    \/ WorkerMeshSend

(***************************************************************************)
(* The main context: the public operations of AssetLoader, the handle      *)
(* generators, the integration loop of App::resumed, and the drop.         *)
(***************************************************************************)
\* mutant: a rendezvous send, which waits until the worker is ready to receive
request_texture_rendezvous(path, name) ==
    /\ main_pc = "idle"
    /\ loader_alive
    /\ Len(submitted) < MaxRequests
    /\ worker_pc = "recv"
    /\ request_queue = <<>>
    /\ request_queue' = send(request_queue, LoadTexture(path, name, Len(submitted) + 1))
    /\ submitted' = Append(submitted, LoadTexture(path, name, Len(submitted) + 1))
    /\ UNCHANGED << result_queue, next_handle_id, counter_lock, table_vars, worker_vars,
                    main_vars, processed, failed, published, minted, polled >>
    /\ UNCHANGED ext_vars

\* request_texture: send LoadTexture; a closed channel is only logged
request_texture(path, name) ==
    /\ main_pc = "idle"
    /\ loader_alive
    /\ Len(submitted) < MaxRequests
    /\ IF worker_pc # "done"
       THEN /\ request_queue' =
                 send(request_queue, LoadTexture(path, name, Len(submitted) + 1))
            /\ submitted' = Append(submitted, LoadTexture(path, name, Len(submitted) + 1))
       ELSE UNCHANGED << request_queue, submitted >>
    /\ UNCHANGED << result_queue, next_handle_id, counter_lock, table_vars, worker_vars,
                    main_vars, processed, failed, published, minted, polled >>
    /\ UNCHANGED ext_vars

\* request_mesh: send LoadMesh; a closed channel is only logged
request_mesh(path, name) ==
    /\ main_pc = "idle"
    /\ loader_alive
    /\ Len(submitted) < MaxRequests
    /\ IF worker_pc # "done"
       THEN /\ request_queue' =
                 send(request_queue, LoadMesh(path, name, Len(submitted) + 1))
            /\ submitted' = Append(submitted, LoadMesh(path, name, Len(submitted) + 1))
       ELSE UNCHANGED << request_queue, submitted >>
    /\ UNCHANGED << result_queue, next_handle_id, counter_lock, table_vars, worker_vars,
                    main_vars, processed, failed, published, minted, polled >>
    /\ UNCHANGED ext_vars

\* generate_texture_handle: lock the counter, let handle = TextureHandle(*id)
generate_texture_handle_lock ==
    /\ main_pc = "idle"
    /\ loader_alive
    /\ main_mints < MaxMainMints
    /\ LockFree
    /\ counter_lock' = "main"
    /\ main_handle' = TextureHandle(next_handle_id)
    /\ main_mints' = main_mints + 1
    /\ main_pc' = "generate_incr"
    /\ UNCHANGED << request_queue, result_queue, next_handle_id, table_vars, worker_vars,
                    loaded, loader_alive, submitted, processed, failed, published,
                    minted, polled >>
    /\ UNCHANGED ext_vars

\* generate_mesh_handle: lock the counter, let handle = MeshHandle(*id)
generate_mesh_handle_lock ==
    /\ main_pc = "idle"
    /\ loader_alive
    /\ main_mints < MaxMainMints
    /\ LockFree
    /\ counter_lock' = "main"
    /\ main_handle' = MeshHandle(next_handle_id)
    /\ main_mints' = main_mints + 1
    /\ main_pc' = "generate_incr"
    /\ UNCHANGED << request_queue, result_queue, next_handle_id, table_vars, worker_vars,
                    loaded, loader_alive, submitted, processed, failed, published,
                    minted, polled >>
    /\ UNCHANGED ext_vars

\* mutant: the handle is returned without the counter being advanced
generate_handle_incr_forgotten ==
    /\ main_pc = "generate_incr"
    /\ counter_lock' = "none"
    /\ minted' = Append(minted, [handle |-> main_handle, by |-> "main", rid |-> 0])
    /\ main_handle' = NoHandle
    /\ main_pc' = "idle"
    /\ UNCHANGED << request_queue, result_queue, next_handle_id, table_vars, worker_vars,
                    loaded, main_mints, loader_alive, submitted, processed, failed,
                    published, polled >>
    /\ UNCHANGED ext_vars

\* generate_*_handle: *id += 1, the handle is returned and the guard dropped
generate_handle_incr ==
    /\ main_pc = "generate_incr"
    /\ next_handle_id' = next_handle_id + 1
    /\ counter_lock' = "none"
    /\ minted' = Append(minted, [handle |-> main_handle, by |-> "main", rid |-> 0])
    /\ main_handle' = NoHandle
    /\ main_pc' = "idle"
    /\ UNCHANGED << request_queue, result_queue, table_vars, worker_vars, loaded,
                    main_mints, loader_alive, submitted, processed, failed, published,
                    polled >>
    /\ UNCHANGED ext_vars

\* poll_loaded is entered: let mut loaded = Vec::new()
poll_loaded_begin ==
    /\ main_pc = "idle"
    /\ loader_alive
    /\ main_pc' = "poll_loaded"
    /\ loaded' = <<>>
    /\ UNCHANGED << shared_vars, table_vars, worker_vars, main_handle, main_mints,
                    loader_alive, submitted, processed, failed, published, minted,
                    polled >>
    /\ UNCHANGED ext_vars

\* mutant: what is received is put in front of what was received before
poll_loaded_recv_push_front ==
    /\ main_pc = "poll_loaded"
    /\ result_queue # <<>>
    /\ loaded' = << recv_item(result_queue) >> \o loaded
    /\ result_queue' = recv_rest(result_queue)
    /\ UNCHANGED << request_queue, next_handle_id, counter_lock, table_vars, worker_vars,
                    main_pc, main_handle, main_mints, loader_alive, submitted, processed,
                    failed, published, minted, polled >>
    /\ UNCHANGED ext_vars

\* while let Ok(asset) = try_recv() { loaded.push(asset) }
poll_loaded_recv ==
    /\ main_pc = "poll_loaded"
    /\ result_queue # <<>>
    /\ loaded' = Append(loaded, recv_item(result_queue))
    /\ result_queue' = recv_rest(result_queue)
    /\ UNCHANGED << request_queue, next_handle_id, counter_lock, table_vars, worker_vars,
                    main_pc, main_handle, main_mints, loader_alive, submitted, processed,
                    failed, published, minted, polled >>
    /\ UNCHANGED ext_vars

\* mutant: a blocking recv, which gives up only when the worker is not busy
poll_loaded_return_blocking ==
    /\ main_pc = "poll_loaded"
    /\ result_queue = <<>>
    /\ worker_pc \in {"recv", "done"}
    /\ polled' = polled \o loaded
    /\ main_pc' = "integrate"
    /\ UNCHANGED << shared_vars, table_vars, worker_vars, loaded, main_handle, main_mints,
                    loader_alive, submitted, processed, failed, published, minted >>
    /\ UNCHANGED ext_vars

\* try_recv finds the queue empty: poll_loaded returns loaded
poll_loaded_return ==
    /\ main_pc = "poll_loaded"
    /\ result_queue = <<>>
    /\ polled' = polled \o loaded
    /\ main_pc' = "integrate"
    /\ UNCHANGED << shared_vars, table_vars, worker_vars, loaded, main_handle, main_mints,
                    loader_alive, submitted, processed, failed, published, minted >>
    /\ UNCHANGED ext_vars

\* mutant: the new entry replaces the whole table
insert_clearing(table, key, value) ==
    [k \in {key} |-> value]

\* HashMap::insert: add the key or replace its value
insert(table, key, value) ==
    [k \in DOMAIN table \cup {key} |-> IF k = key THEN value ELSE table[k]]

RECURSIVE IntegrateTextures(_, _)
IntegrateTextures(table, items) ==
    IF items = <<>> THEN table
    ELSE IntegrateTextures(
             IF Head(items).asset.kind = "Texture"
             THEN insert(table, Head(items).handle, Head(items).asset)
             ELSE table,
             Tail(items))

RECURSIVE IntegrateMeshes(_, _)
IntegrateMeshes(table, items) ==
    IF items = <<>> THEN table
    ELSE IntegrateMeshes(
             IF Head(items).asset.kind = "Mesh"
             THEN insert(table, Head(items).handle, Head(items).asset)
             ELSE table,
             Tail(items))

\* the match arm of one drained pair exists and its as_*_handle().unwrap() succeeds
Integrable(item) ==
    /\ item.asset.kind \in {"Mesh", "Texture"}
    /\ item.handle.kind = item.asset.kind

\* the pairs the loop handles before it panics (all of them when it does not)
RECURSIVE IntegratedPrefix(_)
IntegratedPrefix(items) ==
    IF items = <<>> \/ ~Integrable(Head(items)) THEN <<>>
    ELSE <<Head(items)>> \o IntegratedPrefix(Tail(items))

\* App::resumed: for (handle, asset) in loaded_assets { match asset { .. insert .. } };
\* any other kind of asset reaches the arm _ => unimplemented!() and panics
integrate ==
    /\ main_pc = "integrate"
    /\ LET handled == IntegratedPrefix(loaded) IN
       /\ loaded_texture_data' = IntegrateTextures(loaded_texture_data, handled)
       /\ loaded_mesh_data' = IntegrateMeshes(loaded_mesh_data, handled)
       /\ main_pc' = IF Len(handled) = Len(loaded) THEN "idle" ELSE "panicked"
    /\ loaded' = <<>>
    /\ UNCHANGED << shared_vars, worker_vars, main_handle, main_mints, loader_alive,
                    submitted, processed, failed, published, minted, polled,
                    loaded_material_data, compiled_shader_programs >>
    /\ UNCHANGED ext_vars

\* the AssetLoader is dropped: request_tx and result_rx go away
drop_loader ==
    /\ main_pc = "idle"
    /\ loader_alive
    /\ loader_alive' = FALSE
    /\ UNCHANGED << shared_vars, table_vars, worker_vars, main_pc, loaded, main_handle,
                    main_mints, submitted, processed, failed, published, minted,
                    polled >>
    /\ UNCHANGED ext_vars

Main ==
    \/ \E path \in TexturePaths, name \in Names : request_texture(path, name)
    \/ \E path \in MeshPaths, name \in Names : request_mesh(path, name)
    \/ generate_texture_handle_lock
    \/ generate_mesh_handle_lock
    \/ generate_handle_incr
    \/ poll_loaded_begin
    \/ poll_loaded_recv
    \/ poll_loaded_return
    \/ integrate
    \/ drop_loader

Next == Worker \/ Main

Spec == Init /\ [][Next]_vars

(***************************************************************************)
(* The pipeline with requests that differ in their display names, so that  *)
(* what a result carries can be told apart from what another request or    *)
(* the file itself would have supplied.  The main context requests, polls, *)
(* integrates and drops the loader; it mints no handles of its own.        *)
(***************************************************************************)
DisplayNames == {"crate", "lamp"}

NamedMain ==
    \/ \E path \in TexturePaths, name \in DisplayNames : request_texture(path, name)
    \/ \E path \in MeshPaths, name \in DisplayNames : request_mesh(path, name)
    \/ poll_loaded_begin
    \/ poll_loaded_recv
    \/ poll_loaded_return
    \/ integrate
    \/ drop_loader

NamedNext == Worker \/ NamedMain

NamedSpec == Init /\ [][NamedNext]_vars

(***************************************************************************)
(* Fairness.  The worker is a thread of its own and is scheduled whenever  *)
(* it can take a step; a call the main context has begun runs to its end.  *)
(* PollingSpec adds a main context that calls poll_loaded again and again. *)
(***************************************************************************)
MainContinue ==
    \/ generate_handle_incr
    \/ poll_loaded_recv
    \/ poll_loaded_return
    \/ integrate

FairSpec == Spec /\ WF_vars(Worker) /\ WF_vars(MainContinue)

PollingSpec == FairSpec /\ WF_vars(poll_loaded_begin)

(***************************************************************************)
(* The application of main.rs.  App::resumed runs once, when the event     *)
(* loop starts: it builds the window and the scene, calls poll_loaded and  *)
(* integrates what it returned.  Every later frame is a RedrawRequested    *)
(* event, whose handler draws and requests the next redraw; it does not    *)
(* call poll_loaded.  CloseRequested ends the event loop and App, with its *)
(* AssetLoader, is dropped.                                                *)
(***************************************************************************)
\* App::resumed up to the call of poll_loaded
resumed ==
    /\ main_pc = "idle"
    /\ loader_alive
    /\ ~window_created
    /\ window_created' = TRUE
    /\ main_pc' = "poll_loaded"
    /\ loaded' = <<>>
    /\ UNCHANGED << shared_vars, table_vars, worker_vars, main_handle, main_mints,
                    loader_alive, submitted, processed, failed, published, minted,
                    polled, frames, mesh_vars, par_vars, layout_vars >>

\* WindowEvent::RedrawRequested: one frame is drawn, the next is requested
RedrawRequested ==
    /\ main_pc = "idle"
    /\ loader_alive
    /\ window_created
    /\ frames' = (frames + 1) % (MaxFrames + 1)
    /\ UNCHANGED << shared_vars, table_vars, worker_vars, main_vars, submitted,
                    processed, failed, published, minted, polled, window_created,
                    mesh_vars, par_vars, layout_vars >>

\* WindowEvent::CloseRequested: event_loop.exit(), run_app returns, app is dropped
CloseRequested ==
    /\ window_created
    /\ drop_loader

AppMain ==
    \/ \E path \in TexturePaths, name \in Names : request_texture(path, name)
    \/ \E path \in MeshPaths, name \in Names : request_mesh(path, name)
    \/ resumed
    \/ poll_loaded_recv
    \/ poll_loaded_return
    \/ integrate
    \/ RedrawRequested
    \/ CloseRequested

AppNext == Worker \/ AppMain

\* the event loop delivers Resumed and the redraws; a handler runs to its end
AppContinue ==
    \/ resumed
    \/ poll_loaded_recv
    \/ poll_loaded_return
    \/ integrate
    \/ RedrawRequested

AppSpec == Init /\ [][AppNext]_vars /\ WF_vars(Worker) /\ WF_vars(AppContinue)

(***************************************************************************)
(* The integration loop on its own: the loop of App::resumed applied to    *)
(* every vector of (AssetHandle, Asset) pairs up to MaxDrained long, over  *)
(* tables that earlier integrations have filled.                           *)
(***************************************************************************)
\* the channels are empty, the worker waits in recv, nothing has happened yet
PipelineAtRest ==
    /\ request_queue = <<>>
    /\ result_queue = <<>>
    /\ next_handle_id = 0
    /\ counter_lock = "none"
    /\ loader_alive = TRUE
    /\ worker_pc = "recv"
    /\ request = NoRequest
    /\ worker_asset = NoAsset
    /\ worker_handle = NoHandle
    /\ main_handle = NoHandle
    /\ main_mints = 0
    /\ submitted = <<>>
    /\ processed = <<>>
    /\ failed = <<>>
    /\ published = <<>>
    /\ minted = <<>>
    /\ polled = <<>>
    /\ window_created = FALSE
    /\ frames = 0

\* no mesh was constructed
SceneAtRest ==
    /\ meshes = <<>>
    /\ gl_objects = 0
    /\ gl_buffers = <<>>
    /\ mesh_calls = <<>>
    /\ static_meshes = <<>>
    /\ terminal_lines = <<>>
    /\ selected_object = None
    /\ properties_panel = None
    /\ draw_calls = None
    /\ terminal_appends = 0

\* request_textures_parallel is not running
ParallelAtRest ==
    /\ par_requests = <<>>
    /\ loader_lock = None
    /\ sent_by = <<>>

\* determine_layouts and calculate_stride have not been called on their own
LayoutAtRest ==
    /\ vertex_data = None
    /\ layouts = <<>>
    /\ stride_calls = <<>>
    /\ interleaved = None
    /\ layout_calls = {}

\* the payloads of the four variants of Asset
AssetOfKind(kind) ==
    CASE kind = "Texture" -> LoadedTexture("wall.png", "asset", image_open("wall.png").val)
      [] kind = "Mesh" -> [load_gltf_full("two.glb").val EXCEPT !.name = "asset"]
      [] kind = "Material" -> [kind |-> "Material", name |-> "asset"]
      [] kind = "Shader" -> [kind |-> "Shader", name |-> "asset"]

AssetKinds == {"Texture", "Mesh", "Material", "Shader"}

\* (AssetHandle, Asset): a handle and a payload of the same kind
DrainedPairs ==
    { [handle |-> [kind |-> kind, id |-> id], asset |-> AssetOfKind(kind), rid |-> 0] :
          kind \in AssetKinds, id \in 0..MaxHandleId }

DrainedVectors == UNION { [1..n -> DrainedPairs] : n \in 1..MaxDrained }

IntegrateInit ==
    /\ PipelineAtRest
    /\ LayoutAtRest
    /\ SceneAtRest
    /\ ParallelAtRest
    /\ main_pc = "integrate"
    /\ loaded \in DrainedVectors
    /\ loaded_texture_data \in
           { [h \in { TextureHandle(i) : i \in ids } |->
                 LoadedTexture("wall.png", "old", image_open("wall.png").val)] :
             ids \in {{}, {0}} }
    /\ loaded_mesh_data \in
           { [h \in { MeshHandle(i) : i \in ids } |->
                 [load_gltf_full("two.glb").val EXCEPT !.name = "old"]] :
             ids \in {{}, {MaxHandleId}} }
    /\ loaded_material_data = <<>>
    /\ compiled_shader_programs = <<>>

IntegrateSpec == IntegrateInit /\ [][integrate]_vars

(***************************************************************************)
(* The pipeline after one texture request has been enqueued, naming any    *)
(* image path: a file one pixel wide, a file of 2 x 3 pixels, no file.     *)
(***************************************************************************)
ImagePaths == {"wall.png", "tall.png", "missing.png"}

DecodeInit ==
    /\ \E path \in ImagePaths, name \in Names :
          /\ request_queue = << LoadTexture(path, name, 1) >>
          /\ submitted = << LoadTexture(path, name, 1) >>
    /\ result_queue = <<>>
    /\ next_handle_id = 0
    /\ counter_lock = "none"
    /\ loader_alive = TRUE
    /\ worker_pc = "recv"
    /\ request = NoRequest
    /\ worker_asset = NoAsset
    /\ worker_handle = NoHandle
    /\ main_pc = "idle"
    /\ loaded = <<>>
    /\ main_handle = NoHandle
    /\ main_mints = 0
    /\ processed = <<>>
    /\ failed = <<>>
    /\ published = <<>>
    /\ minted = <<>>
    /\ polled = <<>>
    /\ loaded_texture_data = <<>>
    /\ loaded_mesh_data = <<>>
    /\ loaded_material_data = <<>>
    /\ compiled_shader_programs = <<>>
    /\ window_created = FALSE
    /\ frames = 0
    /\ SceneAtRest
    /\ ParallelAtRest
    /\ LayoutAtRest

DecodeSpec == DecodeInit /\ [][Next]_vars

(***************************************************************************)
(* Mesh construction on its own: StaticMesh::new and DynamicMesh::new      *)
(* called with any MeshHandle, over every mesh table the integration of    *)
(* loaded meshes can have produced.                                        *)
(***************************************************************************)
\* StaticMesh::new / DynamicMesh::new: look the handle up, or panic; then one
\* primitive instance per primitive of the loaded mesh
MeshNewCall(kind, name, handle) ==
    /\ main_pc = "idle"
    /\ loader_alive
    /\ Len(mesh_calls) < MaxMeshes
    /\ IF handle \notin DOMAIN loaded_mesh_data
       THEN /\ main_pc' = "panicked"
            /\ mesh_calls' = Append(mesh_calls,
                                    [kind |-> kind, handle |-> handle,
                                     result |-> "Mesh handle not found in asset loader"])
            /\ UNCHANGED << meshes, gl_objects, gl_buffers >>
       ELSE LET built == BuildPrimitives(loaded_mesh_data[handle].primitives, 1,
                                         gl_objects, gl_buffers, <<>>) IN
            /\ gl_objects' = built.gl
            /\ gl_buffers' = built.buffers
            /\ IF built.ok
               THEN /\ meshes' = Append(meshes, Mesh(kind, name, handle, built.val))
                    /\ mesh_calls' = Append(mesh_calls, [kind |-> kind, handle |-> handle,
                                                         result |-> "ok"])
                    /\ UNCHANGED main_pc
               ELSE /\ main_pc' = "panicked"
                    /\ mesh_calls' = Append(mesh_calls, [kind |-> kind, handle |-> handle,
                                                         result |-> built.err])
                    /\ UNCHANGED meshes
    /\ UNCHANGED << shared_vars, table_vars, worker_vars, loaded, main_handle, main_mints,
                    loader_alive, submitted, processed, failed, published, minted,
                    polled, app_vars, par_vars, layout_vars, selected_object,
                    properties_panel, draw_calls >>

\* a call made outside the editor: the scene and the terminal are not touched
MeshNew(kind, name, handle) ==
    /\ MeshNewCall(kind, name, handle)
    /\ UNCHANGED << static_meshes, terminal_lines, terminal_appends >>

\* mutant: a handle that is not in the table yields a mesh without primitives
StaticMesh_new_or_default(name, handle) ==
    /\ main_pc = "idle"
    /\ loader_alive
    /\ Len(mesh_calls) < MaxMeshes
    /\ LET built == IF handle \in DOMAIN loaded_mesh_data
                    THEN BuildPrimitives(loaded_mesh_data[handle].primitives, 1,
                                         gl_objects, gl_buffers, <<>>)
                    ELSE [ok |-> TRUE, val |-> <<>>, gl |-> gl_objects,
                          buffers |-> gl_buffers] IN
       /\ gl_objects' = built.gl
       /\ gl_buffers' = built.buffers
       /\ meshes' = Append(meshes, Mesh("StaticMesh", name, handle, built.val))
       /\ mesh_calls' = Append(mesh_calls, [kind |-> "StaticMesh", handle |-> handle,
                                            result |-> "ok"])
    /\ UNCHANGED << shared_vars, table_vars, worker_vars, main_vars, submitted, processed,
                    failed, published, minted, polled, app_vars, par_vars, layout_vars,
                    static_meshes, terminal_lines, selected_object, properties_panel,
                    draw_calls, terminal_appends >>

StaticMesh_new(name, handle) == MeshNew("StaticMesh", name, handle)

DynamicMesh_new(name, handle) == MeshNew("DynamicMesh", name, handle)

MeshHandles == { MeshHandle(id) : id \in 0..MaxHandleId }

\* the model files that load: plain, with every float attribute, with skinning
ModelFiles == {"two.glb", "full.glb", "skinned.glb"}

\* what the worker publishes for a LoadMesh request naming path
LoadedMeshes == { [load_gltf_full(path).val EXCEPT !.name = "asset"] : path \in ModelFiles }

\* loaded_mesh_data after the integration of loaded meshes
MeshTables == UNION { [hs -> LoadedMeshes] : hs \in SUBSET MeshHandles }

MeshInit ==
    /\ PipelineAtRest
    /\ LayoutAtRest
    /\ ParallelAtRest
    /\ SceneAtRest
    /\ main_pc = "idle"
    /\ loaded = <<>>
    /\ loaded_texture_data = <<>>
    /\ loaded_mesh_data \in MeshTables
    /\ loaded_material_data = <<>>
    /\ compiled_shader_programs = <<>>

MeshNext ==
    \/ \E name \in Names, handle \in MeshHandles : StaticMesh_new(name, handle)
    \/ \E name \in Names, handle \in MeshHandles : DynamicMesh_new(name, handle)

MeshSpec == MeshInit /\ [][MeshNext]_vars

(***************************************************************************)
(* Rendering: StaticMesh::render and DynamicMesh::render issue one draw    *)
(* call for every primitive that has render data, indexed when the render  *)
(* data has an element buffer.                                             *)
(***************************************************************************)
\* render_data.bind(context), then draw_elements or draw_arrays
DrawCall(render_data) ==
    IF render_data.ebo.some
    THEN [call |-> "draw_elements", vao |-> render_data.vao, ebo |-> render_data.ebo,
          count |-> render_data.index_count]
    ELSE [call |-> "draw_arrays", vao |-> render_data.vao, ebo |-> None,
          count |-> render_data.vertex_count]

\* for primitive in &self.primitives { if let Some(render_data) = .. { .. } }
RECURSIVE RenderCalls(_)
RenderCalls(primitives) ==
    IF primitives = <<>> THEN <<>>
    ELSE (IF Head(primitives).render_data.some
          THEN << DrawCall(Head(primitives).render_data.val) >>
          ELSE <<>>) \o RenderCalls(Tail(primitives))

\* StaticMesh::render / DynamicMesh::render of the m-th mesh constructed
Mesh_render(m) ==
    /\ main_pc = "idle"
    /\ loader_alive
    /\ m \in DOMAIN meshes
    /\ draw_calls' = Some([mesh |-> m, calls |-> RenderCalls(meshes[m].primitives)])
    /\ UNCHANGED << shared_vars, table_vars, worker_vars, main_vars, submitted, processed,
                    failed, published, minted, polled, app_vars, par_vars, layout_vars,
                    meshes, gl_objects, gl_buffers, mesh_calls, static_meshes,
                    terminal_lines, selected_object, properties_panel,
                    terminal_appends >>

RenderInit == MeshInit

RenderNext ==
    \/ MeshNext
    \/ \E m \in 1..MaxMeshes : Mesh_render(m)

RenderSpec == RenderInit /\ [][RenderNext]_vars

(***************************************************************************)
(* The editor's "Add > Mesh > Static Mesh" menu (src/gui.rs).  Gui::update *)
(* runs within the frames of the application and shows one button for      *)
(* every entry of loaded_mesh_data; a clicked button constructs a          *)
(* StaticMesh from its entry's handle and name, adds it to the current     *)
(* scene and reports it on the terminal.                                   *)
(***************************************************************************)
max_terminal_lines == 100

\* mutant: the line just pushed is the one that goes when the deque is too long
append_terminal_pop_back(lines, text) ==
    LET pushed == Append(lines, text) IN
    IF Len(pushed) > max_terminal_lines
    THEN SubSeq(pushed, 1, max_terminal_lines)
    ELSE pushed

\* Gui::append_terminal: push_back, then pop_front while the deque is too long
append_terminal(lines, text) ==
    LET pushed == Append(lines, text) IN
    IF Len(pushed) > max_terminal_lines
    THEN SubSeq(pushed, Len(pushed) - max_terminal_lines + 1, Len(pushed))
    ELSE pushed

\* mutant: a button for every mesh handle issued so far
MenuHandles_issued ==
    { minted[i].handle : i \in { j \in DOMAIN minted : minted[j].handle.kind = "Mesh" } }

\* for (handle, loaded_mesh) in &asset_loader.loaded_mesh_data: the buttons shown
MenuHandles == DOMAIN loaded_mesh_data

\* ui.button(mesh_name).clicked(): StaticMesh::new, add_static_mesh, append_terminal
Gui_add_static_mesh ==
    /\ window_created
    /\ \E handle \in MenuHandles :
         /\ MeshNewCall("StaticMesh", loaded_mesh_data[handle].name, handle)
         /\ IF main_pc' = "panicked"
            THEN UNCHANGED << static_meshes, terminal_lines, terminal_appends >>
            ELSE /\ static_meshes' = Append(static_meshes, meshes'[Len(meshes')])
                 /\ terminal_appends' = terminal_appends + 1
                 /\ terminal_lines' =
                        append_terminal(terminal_lines,
                                        << "Added Static Mesh: ",
                                           loaded_mesh_data[handle].name >>)

\* SelectedObject::StaticMesh(i)
SelectedStaticMesh(i) == [kind |-> "StaticMesh", index |-> i]

\* Vec::get_mut(index): indices count from 0
get_mut(vec, index) == IF index < Len(vec) THEN Some(vec[index + 1]) ELSE None

\* mutant: the buttons of the hierarchy are numbered from 1
HierarchyIndices_from_one == 1..Len(static_meshes)

\* for (i, sm) in current_scene.static_meshes.iter().enumerate(): the buttons shown
HierarchyIndices == 0..(Len(static_meshes) - 1)

\* the Hierarchy panel: a click on the button of static mesh i selects it
Gui_select_static_mesh ==
    /\ window_created
    /\ main_pc = "idle"
    /\ loader_alive
    /\ \E i \in HierarchyIndices : selected_object' = Some(SelectedStaticMesh(i))
    /\ UNCHANGED << shared_vars, table_vars, worker_vars, main_vars, submitted, processed,
                    failed, published, minted, polled, app_vars, par_vars, layout_vars,
                    meshes, gl_objects, gl_buffers, mesh_calls, static_meshes,
                    terminal_lines, properties_panel, draw_calls, terminal_appends >>

\* the Properties panel: the selected static mesh is looked up, or the panel panics
\* with "Static mesh not found"; the widgets shown for a mesh that was found edit its
\* fields and leave the list as it is
Gui_properties_panel ==
    /\ window_created
    /\ main_pc = "idle"
    /\ loader_alive
    /\ IF selected_object.some
       THEN IF get_mut(static_meshes, selected_object.val.index).some
            THEN /\ properties_panel' = Ok(selected_object.val.index)
                 /\ UNCHANGED main_pc
            ELSE /\ properties_panel' = Err("Static mesh not found")
                 /\ main_pc' = "panicked"
       ELSE /\ properties_panel' = Ok("No object selected")
            /\ UNCHANGED main_pc
    /\ UNCHANGED << shared_vars, table_vars, worker_vars, loaded, main_handle, main_mints,
                    loader_alive, submitted, processed, failed, published, minted,
                    polled, app_vars, par_vars, layout_vars, meshes, gl_objects,
                    gl_buffers, mesh_calls, static_meshes, terminal_lines,
                    selected_object, draw_calls, terminal_appends >>

GuiNext == AppNext \/ Gui_add_static_mesh

GuiSpec == Init /\ [][GuiNext]_vars

(***************************************************************************)
(* The editor on its own: the window exists, the integration of loaded     *)
(* meshes has filled loaded_mesh_data, and the user adds static meshes     *)
(* from the menu, selects them in the Hierarchy panel and looks at them in *)
(* the Properties panel.                                                   *)
(***************************************************************************)
EditorInit ==
    /\ request_queue = <<>>
    /\ result_queue = <<>>
    /\ next_handle_id = 0
    /\ counter_lock = "none"
    /\ loader_alive = TRUE
    /\ worker_pc = "recv"
    /\ request = NoRequest
    /\ worker_asset = NoAsset
    /\ worker_handle = NoHandle
    /\ main_handle = NoHandle
    /\ main_mints = 0
    /\ submitted = <<>>
    /\ processed = <<>>
    /\ failed = <<>>
    /\ published = <<>>
    /\ minted = <<>>
    /\ polled = <<>>
    /\ window_created = TRUE
    /\ frames = 0
    /\ LayoutAtRest
    /\ ParallelAtRest
    /\ SceneAtRest
    /\ main_pc = "idle"
    /\ loaded = <<>>
    /\ loaded_texture_data = <<>>
    /\ loaded_mesh_data \in MeshTables
    /\ loaded_material_data = <<>>
    /\ compiled_shader_programs = <<>>

EditorNext ==
    \/ Gui_add_static_mesh
    \/ Gui_select_static_mesh
    \/ Gui_properties_panel

EditorSpec == EditorInit /\ [][EditorNext]_vars

(***************************************************************************)
(* The console on its own: append_terminal called again and again, one     *)
(* line at a time by the menus and the command line, several at a time     *)
(* when Gui::update drains the results of commands.  Every line appended   *)
(* carries the number of its call, so that lines can be told apart.        *)
(***************************************************************************)
\* the text handed to the n-th call of append_terminal
Line(n) == << "line", n >>

\* self.append_terminal(..) of a menu entry or of the command line
call_append_terminal ==
    /\ terminal_appends < MaxAppends
    /\ terminal_lines' = append_terminal(terminal_lines, Line(terminal_appends + 1))
    /\ terminal_appends' = terminal_appends + 1
    /\ UNCHANGED << shared_vars, table_vars, worker_vars, main_vars, submitted, processed,
                    failed, published, minted, polled, app_vars, par_vars, layout_vars,
                    meshes, gl_objects, gl_buffers, mesh_calls, static_meshes,
                    selected_object, properties_panel, draw_calls >>

RECURSIVE AppendLines(_, _, _)
AppendLines(lines, n, k) ==
    IF k = 0 THEN lines
    ELSE AppendLines(append_terminal(lines, Line(n + 1)), n + 1, k - 1)

\* while let Ok(line) = self.command_result_rx.try_recv() { self.append_terminal(line) }
Gui_drain_command_results(k) ==
    /\ terminal_appends + k <= MaxAppends
    /\ terminal_lines' = AppendLines(terminal_lines, terminal_appends, k)
    /\ terminal_appends' = terminal_appends + k
    /\ UNCHANGED << shared_vars, table_vars, worker_vars, main_vars, submitted, processed,
                    failed, published, minted, polled, app_vars, par_vars, layout_vars,
                    meshes, gl_objects, gl_buffers, mesh_calls, static_meshes,
                    selected_object, properties_panel, draw_calls >>

TerminalInit == Init

TerminalNext ==
    \/ call_append_terminal
    \/ \E k \in 2..MaxBatch : Gui_drain_command_results(k)

TerminalSpec == TerminalInit /\ [][TerminalNext]_vars

(***************************************************************************)
(* App::request_textures_parallel: rayon runs the closure once for every   *)
(* element of the slice, on whichever thread of its pool takes the element *)
(* (work stealing); the closure locks the Mutex around the AssetLoader,    *)
(* calls request_texture and drops the guard.  The worker runs meanwhile.  *)
(***************************************************************************)
RayonThreads == {"rayon-1", "rayon-2"}

\* the elements some thread has begun or finished
TakenSlots ==
    { sent_by[k].slot : k \in DOMAIN sent_by }
       \cup (IF loader_lock.some THEN {loader_lock.val.slot} ELSE {})

\* let loader = asset_loader.lock().unwrap(), for an element nobody has taken
par_lock(thread, slot) ==
    /\ slot \in DOMAIN par_requests
    /\ slot \notin TakenSlots
    /\ loader_lock = None
    /\ loader_lock' = Some([thread |-> thread, slot |-> slot])
    /\ UNCHANGED << shared_vars, table_vars, worker_vars, main_vars, submitted, processed,
                    failed, published, minted, polled, app_vars, mesh_vars, par_requests,
                    sent_by, layout_vars >>

\* loader.request_texture(path, name.clone()), then the guard is dropped
par_request_texture ==
    /\ loader_lock.some
    /\ LET path == par_requests[loader_lock.val.slot][1]
           name == par_requests[loader_lock.val.slot][2] IN
       IF worker_pc # "done"
       THEN /\ request_queue' =
                 send(request_queue, LoadTexture(path, name, Len(submitted) + 1))
            /\ submitted' = Append(submitted, LoadTexture(path, name, Len(submitted) + 1))
       ELSE UNCHANGED << request_queue, submitted >>
    /\ sent_by' = Append(sent_by, loader_lock.val)
    /\ loader_lock' = None
    /\ UNCHANGED << result_queue, next_handle_id, counter_lock, table_vars, worker_vars,
                    main_vars, processed, failed, published, minted, polled, app_vars,
                    mesh_vars, par_requests, layout_vars >>

Submitters ==
    \/ \E thread \in RayonThreads, slot \in 1..MaxParallel : par_lock(thread, slot)
    \/ par_request_texture

\* the branches of the worker that texture requests reach
TextureWorker ==
    \/ WorkerRecv
    \/ WorkerTextureOpen
    \/ WorkerTextureLock
    \/ WorkerTextureIncr
    \/ WorkerTextureSend

\* the slices handed to request_textures_parallel: MaxParallel elements whose
\* paths alternate between the files
ParallelSlices ==
    { [i \in 1..MaxParallel |->
          << IF i % 2 = 1 THEN first ELSE CHOOSE p \in TexturePaths : p # first, name >>] :
      first \in TexturePaths, name \in Names }

ParallelInit ==
    /\ PipelineAtRest
    /\ LayoutAtRest
    /\ SceneAtRest
    /\ main_pc = "idle"
    /\ loaded = <<>>
    /\ loaded_texture_data = <<>>
    /\ loaded_mesh_data = <<>>
    /\ loaded_material_data = <<>>
    /\ compiled_shader_programs = <<>>
    /\ par_requests \in ParallelSlices
    /\ loader_lock = None
    /\ sent_by = <<>>

ParallelNext == TextureWorker \/ Submitters

\* rayon runs every element; the worker is a thread of its own
ParallelSpec ==
    ParallelInit /\ [][ParallelNext]_vars /\ WF_vars(TextureWorker) /\ WF_vars(Submitters)

(***************************************************************************)
(* The locks together.  App keeps the AssetLoader in an Arc<Mutex<..>>:    *)
(* the main thread locks it for every call it makes on the loader          *)
(* (App::request_texture, App::resumed), the rayon threads of              *)
(* request_textures_parallel lock it for their submissions, and inside it  *)
(* the handle generators take the counter's own Mutex, which the worker    *)
(* takes as well.  Here the main thread requests a mesh, mints handles,     *)
(* polls and integrates while a parallel submission of one texture runs.   *)
(***************************************************************************)
MainGuard == Some([thread |-> "main", slot |-> 0])

\* self.asset_loader.lock().unwrap() on the main thread
app_lock ==
    /\ main_pc = "idle"
    /\ loader_alive
    /\ loader_lock = None
    /\ loader_lock' = MainGuard
    /\ UNCHANGED << shared_vars, table_vars, worker_vars, main_vars, submitted, processed,
                    failed, published, minted, polled, app_vars, mesh_vars, par_requests,
                    sent_by, layout_vars >>

\* the main thread's MutexGuard goes out of scope when the call has returned
app_unlock ==
    /\ main_pc = "idle"
    /\ loader_lock = MainGuard
    /\ loader_lock' = None
    /\ UNCHANGED << shared_vars, table_vars, worker_vars, main_vars, submitted, processed,
                    failed, published, minted, polled, app_vars, mesh_vars, par_requests,
                    sent_by, layout_vars >>

\* the calls the main thread makes on the loader, the guard in hand
Guarded ==
    /\ loader_lock = MainGuard
    /\ \/ \E name \in Names : request_mesh("two.glb", name)
       \/ generate_texture_handle_lock
       \/ generate_mesh_handle_lock
       \/ generate_handle_incr
       \/ poll_loaded_begin
       \/ poll_loaded_recv
       \/ poll_loaded_return
       \/ integrate

\* the rayon threads: they can take the AssetLoader only when nobody holds it
RayonSubmitters == loader_lock # MainGuard /\ Submitters

\* a slice of one texture for request_textures_parallel
LockSlices == { << << path, name >> >> : path \in TexturePaths, name \in Names }

LockInit ==
    /\ PipelineAtRest
    /\ LayoutAtRest
    /\ SceneAtRest
    /\ main_pc = "idle"
    /\ loaded = <<>>
    /\ loaded_texture_data = <<>>
    /\ loaded_mesh_data = <<>>
    /\ loaded_material_data = <<>>
    /\ compiled_shader_programs = <<>>
    /\ par_requests \in LockSlices
    /\ loader_lock = None
    /\ sent_by = <<>>

\* App is dropped, and the AssetLoader with it: nobody holds the mutex, and
\* request_textures_parallel, which borrows the App, has returned
app_drop ==
    /\ loader_lock = None
    /\ Len(sent_by) = Len(par_requests)
    /\ drop_loader

LockNext == Worker \/ app_lock \/ Guarded \/ app_unlock \/ RayonSubmitters \/ app_drop

LockSpec == LockInit /\ [][LockNext]_vars

(***************************************************************************)
(* determine_layouts and calculate_stride on their own: applied to every   *)
(* shape of VertexData up to MaxTexcoordSets texcoord sets and             *)
(* MaxColorSets color sets, and to the empty slice of layouts.             *)
(***************************************************************************)
Optional(v) == {None, Some(v)}
SeqsUpTo(S, n) == UNION { [1..k -> S] : k \in 0..n }

\* VertexData of one vertex; the numbers tell the attributes apart
VertexDataShapes ==
    { [positions |-> << 1 >>, normals |-> normals, tangents |-> tangents,
       texcoords |-> texcoords, colors |-> colors, joints |-> joints,
       weights |-> weights] :
          normals \in Optional(<< 2 >>),
          tangents \in Optional(<< 3 >>),
          texcoords \in SeqsUpTo({<< 4 >>}, MaxTexcoordSets),
          colors \in SeqsUpTo({[format |-> "Rgb", values |-> << 5 >>],
                               [format |-> "Rgba", values |-> << 6 >>]}, MaxColorSets),
          joints \in Optional(<< 7 >>),
          weights \in Optional(<< 8 >>) }

\* let layouts = determine_layouts(&vertex_data)
call_determine_layouts ==
    /\ layouts = <<>>
    /\ layouts' = determine_layouts(vertex_data)
    /\ UNCHANGED << shared_vars, table_vars, worker_vars, main_vars, submitted, processed,
                    failed, published, minted, polled, app_vars, mesh_vars, par_vars,
                    vertex_data, stride_calls, interleaved, layout_calls >>

\* let stride = calculate_stride(&layouts)
call_calculate_stride ==
    /\ Len(stride_calls) < MaxStrideCalls
    /\ stride_calls' = Append(stride_calls, [layouts |-> layouts,
                                             stride |-> calculate_stride(layouts)])
    /\ UNCHANGED << shared_vars, table_vars, worker_vars, main_vars, submitted, processed,
                    failed, published, minted, polled, app_vars, mesh_vars, par_vars,
                    vertex_data, layouts, interleaved, layout_calls >>

LayoutInit ==
    /\ PipelineAtRest
    /\ SceneAtRest
    /\ ParallelAtRest
    /\ main_pc = "idle"
    /\ loaded = <<>>
    /\ loaded_texture_data = <<>>
    /\ loaded_mesh_data = <<>>
    /\ loaded_material_data = <<>>
    /\ compiled_shader_programs = <<>>
    /\ vertex_data \in VertexDataShapes
    /\ layouts = <<>>
    /\ stride_calls = <<>>
    /\ interleaved = None
    /\ layout_calls = {}

LayoutNext == call_determine_layouts \/ call_calculate_stride

LayoutSpec == LayoutInit /\ [][LayoutNext]_vars

(***************************************************************************)
(* interleave_vertex_data on its own: applied to a VertexData of every     *)
(* combination of attributes, with 0 to MaxVertices vertices.              *)
(***************************************************************************)
\* which attributes a VertexData has
AttributeShapes ==
    [normals : BOOLEAN, tangents : BOOLEAN, texcoords : 0..MaxTexcoordSets,
     colors : SeqsUpTo({"Rgb", "Rgba"}, MaxColorSets), joints : BOOLEAN,
     weights : BOOLEAN]

\* the n elements of one attribute: numbers that tell the attribute, the vertex
\* and the set of values d apart
Elements(tag, n, d) == [i \in 1..n |-> 100 * tag + 10 * d + i]

\* VertexData { .. } of n vertices with the attributes of shape
VertexData(shape, n, d) ==
    [positions |-> Elements(1, n, d),
     normals |-> IF shape.normals THEN Some(Elements(2, n, d)) ELSE None,
     tangents |-> IF shape.tangents THEN Some(Elements(3, n, d)) ELSE None,
     texcoords |-> [k \in 1..shape.texcoords |-> Elements(10 + k, n, d)],
     colors |-> [k \in DOMAIN shape.colors |->
                    [format |-> shape.colors[k], values |-> Elements(20 + k, n, d)]],
     joints |-> IF shape.joints THEN Some(Elements(4, n, d)) ELSE None,
     weights |-> IF shape.weights THEN Some(Elements(5, n, d)) ELSE None]

\* let interleaved_vertices = interleave_vertex_data(&vertex_data)
call_interleave_vertex_data ==
    /\ ~interleaved.some
    /\ interleaved' = Some(interleave_vertex_data(vertex_data))
    /\ UNCHANGED << shared_vars, table_vars, worker_vars, main_vars, submitted, processed,
                    failed, published, minted, polled, app_vars, mesh_vars, par_vars,
                    vertex_data, layouts, stride_calls, layout_calls >>

InterleaveInit ==
    /\ PipelineAtRest
    /\ SceneAtRest
    /\ ParallelAtRest
    /\ main_pc = "idle"
    /\ loaded = <<>>
    /\ loaded_texture_data = <<>>
    /\ loaded_mesh_data = <<>>
    /\ loaded_material_data = <<>>
    /\ compiled_shader_programs = <<>>
    /\ vertex_data \in { VertexData(shape, n, 0) :
                            shape \in AttributeShapes, n \in 0..MaxVertices }
    /\ layouts = <<>>
    /\ stride_calls = <<>>
    /\ interleaved = None
    /\ layout_calls = {}

InterleaveNext == call_interleave_vertex_data

InterleaveSpec == InterleaveInit /\ [][InterleaveNext]_vars

(***************************************************************************)
(* determine_layouts called several times: on VertexData that have the     *)
(* same attributes but other values and another number of vertices, and on *)
(* a VertexData that differs in one attribute.                             *)
(***************************************************************************)
\* which attributes v has
ShapeOf(v) ==
    [normals |-> v.normals.some, tangents |-> v.tangents.some,
     texcoords |-> Len(v.texcoords),
     colors |-> [k \in DOMAIN v.colors |-> v.colors[k].format],
     joints |-> v.joints.some, weights |-> v.weights.some]

\* the arguments of the calls
Revalued(v) ==
    { VertexData(ShapeOf(v), n, d) : n \in 0..MaxVertices, d \in {0, 1} }
       \cup { VertexData([ShapeOf(v) EXCEPT !.normals = ~@], 1, 0) }

\* let layouts = determine_layouts(&v)
call_determine_layouts_on(v) ==
    /\ Cardinality(layout_calls) < MaxLayoutCalls
    /\ layout_calls' =
          layout_calls \cup {[vertex_data |-> v, layouts |-> determine_layouts(v)]}
    /\ UNCHANGED << shared_vars, table_vars, worker_vars, main_vars, submitted, processed,
                    failed, published, minted, polled, app_vars, mesh_vars, par_vars,
                    vertex_data, layouts, stride_calls, interleaved >>

RepeatInit ==
    /\ PipelineAtRest
    /\ SceneAtRest
    /\ ParallelAtRest
    /\ main_pc = "idle"
    /\ loaded = <<>>
    /\ loaded_texture_data = <<>>
    /\ loaded_mesh_data = <<>>
    /\ loaded_material_data = <<>>
    /\ compiled_shader_programs = <<>>
    /\ vertex_data \in { VertexData(shape, 1, 0) : shape \in AttributeShapes }
    /\ layouts = <<>>
    /\ stride_calls = <<>>
    /\ interleaved = None
    /\ layout_calls = {}

RepeatNext == \E v \in Revalued(vertex_data) : call_determine_layouts_on(v)

RepeatSpec == RepeatInit /\ [][RepeatNext]_vars

(***************************************************************************)
(* Vocabulary of the properties below.                                     *)
(***************************************************************************)
Range(f) == { f[i] : i \in DOMAIN f }
Count(seq, rid) == Cardinality({ i \in DOMAIN seq : seq[i].rid = rid })
Enqueued(rid) == rid \in DOMAIN submitted
\* what is on disk under a path, read without the decoders
IsImageFile(path) == FileSystem(path).some /\ FileSystem(path).val.format = "image"
IsModelFile(path) == FileSystem(path).some /\ FileSystem(path).val.format = "gltf"
ParseError(path) == ~IsModelFile(path)
BufferUnreadable(path) ==
    /\ IsModelFile(path)
    /\ \E i \in DOMAIN FileSystem(path).val.buffers :
          /\ FileSystem(path).val.buffers[i] # "Bin"
          /\ ~FileSystem(FileSystem(path).val.buffers[i]).some
BinaryChunkMissing(path) ==
    /\ IsModelFile(path)
    /\ ~FileSystem(path).val.blob.some
    /\ \E i \in DOMAIN FileSystem(path).val.buffers :
          FileSystem(path).val.buffers[i] = "Bin"
PositionsMissing(path) ==
    /\ IsModelFile(path)
    /\ \E i \in DOMAIN FileSystem(path).val.primitives :
          ~FileSystem(path).val.primitives[i].positions.some
MeshFaulty(path) ==
    \/ ParseError(path)
    \/ BufferUnreadable(path)
    \/ BinaryChunkMissing(path)
    \/ PositionsMissing(path)
\* a step of the worker thread / of the main context
WorkerStep == worker_pc' # worker_pc
PollStep ==
    \/ main_pc = "idle" /\ main_pc' = "poll_loaded"
    \/ main_pc = "poll_loaded" /\ main_pc' = "poll_loaded" /\ loaded' # loaded
    \/ main_pc = "poll_loaded" /\ main_pc' = "integrate"

(***************************************************************************)
(* C1  Handle uniqueness.  Over every interleaving of the worker's texture *)
(* mints, the worker's mesh mints and the main context's                   *)
(* generate_texture_handle / generate_mesh_handle calls on the one shared  *)
(* counter, no two minted handles carry the same id, whatever their kinds. *)
(***************************************************************************)
C1_HandleUniqueness ==
    \A i, j \in DOMAIN minted : i # j => minted[i].handle.id # minted[j].handle.id

\* the worker minted a texture and a mesh handle and the main context minted too
C1_Witness ==
    /\ \E i \in DOMAIN minted : minted[i].by = "worker" /\ minted[i].handle.kind = "Texture"
    /\ \E i \in DOMAIN minted : minted[i].by = "worker" /\ minted[i].handle.kind = "Mesh"
    /\ \E i \in DOMAIN minted : minted[i].by = "main" /\ i < Len(minted)

(***************************************************************************)
(* C2  Every texture request that was enqueued and whose image decodes is  *)
(* returned by poll_loaded exactly once, as one (Texture handle, Texture   *)
(* asset) pair: never twice, and eventually once, when the worker is       *)
(* scheduled fairly and poll_loaded is called again and again (which it    *)
(* can be only while the AssetLoader exists).                              *)
(***************************************************************************)
DecodableTexture(rid) ==
    /\ Enqueued(rid)
    /\ submitted[rid].kind = "LoadTexture"
    /\ IsImageFile(submitted[rid].path)

TexturePairs(seq, rid) ==
    Cardinality({ i \in DOMAIN seq : /\ seq[i].rid = rid
                                     /\ seq[i].handle.kind = "Texture"
                                     /\ seq[i].asset.kind = "Texture" })

C2_TextureDeliveredExactlyOnce ==
    /\ [](\A rid \in 1..MaxRequests : Count(polled, rid) <= 1)
    /\ []<>(\A rid \in 1..MaxRequests :
               DecodableTexture(rid) => (TexturePairs(polled, rid) = 1 \/ ~loader_alive))

\* a decodable texture request has been returned by poll_loaded, loader still alive
C2_Witness ==
    /\ loader_alive
    /\ \E rid \in 1..MaxRequests :
          DecodableTexture(rid) /\ TexturePairs(polled, rid) = 1

(***************************************************************************)
(* C3  When the image of a texture request does not decode, the worker     *)
(* publishes no result for it and its steps on that request leave the      *)
(* handle counter as it was: no handle is minted for the request.          *)
(***************************************************************************)
TextureFailing(req) == req.kind = "LoadTexture" /\ ~IsImageFile(req.path)

C3_TextureFailureConsumesNothing ==
    /\ [][(WorkerStep /\ (TextureFailing(request) \/ TextureFailing(request')))
            => /\ next_handle_id' = next_handle_id
               /\ result_queue' = result_queue
               /\ published' = published
               /\ minted' = minted]_vars
    /\ [](\A rid \in 1..MaxRequests :
            (Enqueued(rid) /\ TextureFailing(submitted[rid]))
               => (Count(published, rid) = 0 /\ Count(minted, rid) = 0))

\* a texture request failed after the counter had already advanced
C3_Witness ==
    /\ next_handle_id >= 1
    /\ \E i \in DOMAIN failed : TextureFailing(submitted[failed[i]])

(***************************************************************************)
(* C4  When a mesh request fails (parse error, unreadable buffer, missing  *)
(* binary chunk, or a primitive without positions, also a later one after  *)
(* earlier primitives parsed), nothing is published for it, no partial     *)
(* mesh, and the worker's steps on it leave the handle counter unchanged.  *)
(***************************************************************************)
MeshFailing(req) == req.kind = "LoadMesh" /\ MeshFaulty(req.path)

C4_MeshFailureConsumesNothing ==
    /\ [][(WorkerStep /\ (MeshFailing(request) \/ MeshFailing(request')))
            => /\ next_handle_id' = next_handle_id
               /\ result_queue' = result_queue
               /\ published' = published
               /\ minted' = minted]_vars
    /\ [](\A rid \in 1..MaxRequests :
            (Enqueued(rid) /\ MeshFailing(submitted[rid]))
               => (Count(published, rid) = 0 /\ Count(minted, rid) = 0))
    /\ [](\A i \in DOMAIN published :
            published[i].asset.kind = "Mesh"
               => /\ ~MeshFaulty(published[i].asset.path)
                  /\ Len(published[i].asset.primitives) =
                        Len(FileSystem(published[i].asset.path).val.primitives))

\* a mesh whose second primitive lacks positions (the first has them) failed
\* after the counter had already advanced
C4_Witness ==
    /\ next_handle_id >= 1
    /\ \E i \in DOMAIN failed :
          LET req == submitted[failed[i]] IN
          /\ MeshFailing(req)
          /\ FileSystem(req.path).val.primitives[1].positions.some
          /\ ~FileSystem(req.path).val.primitives[2].positions.some

(***************************************************************************)
(* C5  A decode failure ends only the request it belongs to: the failing   *)
(* step leaves the worker at the head of its loop, and every request       *)
(* enqueued after a failed one is still received by the worker and, when   *)
(* it decodes, published (as long as the AssetLoader exists).              *)
(***************************************************************************)
Decodable(rid) ==
    /\ Enqueued(rid)
    /\ \/ submitted[rid].kind = "LoadTexture" /\ IsImageFile(submitted[rid].path)
       \/ submitted[rid].kind = "LoadMesh" /\ ~MeshFaulty(submitted[rid].path)

AfterFailure(rid) ==
    Enqueued(rid) /\ \E i \in DOMAIN failed : failed[i] < rid

Taken == IF main_pc = "poll_loaded" THEN loaded ELSE <<>>

C7_PollOrderIsPublishOrder ==
    polled \o Taken \o result_queue = published

\* two results were returned by two different poll_loaded calls
C7_Witness ==
    /\ main_pc = "integrate"
    /\ Len(loaded) = 1
    /\ Len(polled) = 2

(***************************************************************************)
(* C8  A handle is never visible without its payload: the worker holds a   *)
(* handle only once the asset is completely decoded, and every item in the *)
(* result queue or returned by poll_loaded pairs a handle with a fully     *)
(* constructed asset of the handle's kind.                                 *)
(***************************************************************************)
CompleteTexture(asset) ==
    /\ asset.kind = "Texture"
    /\ IsImageFile(asset.path)
    /\ asset.width = FileSystem(asset.path).val.width
    /\ asset.height = FileSystem(asset.path).val.height
    /\ Len(asset.data) = 4 * asset.width * asset.height

CompleteMesh(asset) ==
    /\ asset.kind = "Mesh"
    /\ IsModelFile(asset.path)
    /\ Len(asset.primitives) = Len(FileSystem(asset.path).val.primitives)
    /\ \A i \in DOMAIN asset.primitives :
          asset.primitives[i].vertex_data.positions =
             FileSystem(asset.path).val.primitives[i].positions.val

Paired(handle, asset) ==
    \/ handle.kind = "Texture" /\ CompleteTexture(asset)
    \/ handle.kind = "Mesh" /\ CompleteMesh(asset)

C8_HandleNeverWithoutPayload ==
    /\ worker_handle # NoHandle => Paired(worker_handle, worker_asset)
    /\ \A i \in DOMAIN result_queue :
          Paired(result_queue[i].handle, result_queue[i].asset)
    /\ \A i \in DOMAIN loaded : Paired(loaded[i].handle, loaded[i].asset)
    /\ \A i \in DOMAIN polled : Paired(polled[i].handle, polled[i].asset)

\* one pair has been returned while the worker holds a freshly minted handle
C8_Witness ==
    /\ polled # <<>>
    /\ worker_handle # NoHandle

(***************************************************************************)
(* C9  The worker takes the requests in the order they were enqueued, each *)
(* exactly once, and one at a time: when it receives a request, every      *)
(* request received before has been published or dropped.                  *)
(***************************************************************************)
C9_RequestsInOrderOneAtATime ==
    /\ \A i \in DOMAIN processed : processed[i] = i
    /\ Len(processed) <= Len(submitted)
    /\ request_queue = SubSeq(submitted, Len(processed) + 1, Len(submitted))
    /\ \A i \in DOMAIN processed :
          i < Len(processed)
             => \/ processed[i] \in Range(failed)
                \/ Count(published, processed[i]) = 1

\* the worker has received the second request after settling the first
C9_Witness ==
    /\ Len(processed) = 2
    /\ worker_pc \in {"texture_open", "mesh_load"}

(***************************************************************************)
(* C10  Once the AssetLoader is dropped (every sender of the request queue *)
(* is gone) the worker eventually leaves its loop and terminates, instead  *)
(* of blocking forever on receive.                                         *)
(***************************************************************************)
C10_WorkerTerminatesAfterDrop ==
    (~loader_alive) ~> (worker_pc = "done")

\* the worker ended because the request iterator ended, after serving requests
C10_Witness ==
    /\ ~loader_alive
    /\ worker_pc = "done"
    /\ request_queue = <<>>
    /\ Len(processed) = Len(submitted)
    /\ Len(published) + Len(failed) = Len(processed)
    /\ Len(processed) >= 1

(***************************************************************************)
(* C11  No cancellation.  As stated: every request that was enqueued is    *)
(* eventually published or dropped because its decode failed, and is       *)
(* abandoned for no other reason.  A worker that has left its loop handles *)
(* nothing any more, so the statement requires that whenever the worker    *)
(* has ended, every enqueued request is published or failed.               *)
(***************************************************************************)
Settled(rid) == rid \in Range(failed) \/ Count(published, rid) = 1
Abandoned(rid) == Enqueued(rid) /\ ~Settled(rid) /\ worker_pc = "done"

C11_NoRequestAbandoned ==
    \A rid \in 1..MaxRequests : ~Abandoned(rid)

(***************************************************************************)
(* C11 amended.  While the AssetLoader exists every enqueued request is    *)
(* eventually published or dropped because its decode failed; the worker   *)
(* leaves its loop only after the AssetLoader was dropped, and only then   *)
(* are requests abandoned: the one it was handling and those still queued. *)
(* Until then a request the worker received and has not settled is the one *)
(* it is handling.                                                         *)
(***************************************************************************)
C11_NoCancellationWhileLoaderExists ==
    /\ []<>(\A rid \in 1..MaxRequests : Enqueued(rid) => ~loader_alive \/ Settled(rid))
    /\ [](worker_pc = "done" => ~loader_alive)
    /\ [](\A i \in DOMAIN processed :
             \/ Settled(processed[i])
             \/ worker_pc = "done"
             \/ worker_pc # "recv" /\ request.rid = processed[i])

\* the AssetLoader exists, one request was published, one failed, none is left
C11_Witness ==
    /\ loader_alive
    /\ worker_pc = "recv"
    /\ request_queue = <<>>
    /\ Len(submitted) = MaxRequests
    /\ \E rid \in DOMAIN submitted : rid \in Range(failed)
    /\ \E rid \in DOMAIN submitted : Count(published, rid) = 1
    /\ \A rid \in DOMAIN submitted : Settled(rid)

(***************************************************************************)
(* C12  request_texture and request_mesh only append one request to the    *)
(* request queue and return without waiting for the worker: a step that    *)
(* lengthens the request queue appends exactly one LoadTexture or LoadMesh *)
(* and changes nothing else, and the call can be made wherever the worker  *)
(* is.  A step taken by the main context when the worker has ended (the    *)
(* request queue is closed) changes neither queue, counter nor tables.     *)
(***************************************************************************)
RequestStep == Len(request_queue') > Len(request_queue)
CanRequest == main_pc = "idle" /\ loader_alive /\ Len(submitted) < MaxRequests

Integrated(item) ==
    \/ /\ item.handle.kind = "Texture"
       /\ item.handle \in DOMAIN loaded_texture_data
       /\ loaded_texture_data[item.handle] = item.asset
    \/ /\ item.handle.kind = "Mesh"
       /\ item.handle \in DOMAIN loaded_mesh_data
       /\ loaded_mesh_data[item.handle] = item.asset

C13_EveryResultEventuallyIntegrated ==
    []<>(\A i \in 1..MaxRequests :
            i \in DOMAIN published => ~loader_alive \/ Integrated(published[i]))

(***************************************************************************)
(* C14  Integration of a drained (handle, asset) pair inserts or           *)
(* overwrites the entry for that handle in the table of the handle's kind  *)
(* and changes no other table and no other entry, for each of the four     *)
(* kinds: after the loop, every table holds, under each handle of its kind *)
(* that was drained, the asset drained last with it, and every other entry *)
(* as before.                                                              *)
(***************************************************************************)
Table(kind) ==
    CASE kind = "Texture" -> loaded_texture_data
      [] kind = "Mesh" -> loaded_mesh_data
      [] kind = "Material" -> loaded_material_data
      [] kind = "Shader" -> compiled_shader_programs

IntegrateStep == main_pc = "integrate" /\ main_pc' # "integrate"
DrainedWith(handle) == { i \in DOMAIN loaded : loaded[i].handle = handle }
LastDrainedWith(handle) ==
    loaded[CHOOSE i \in DrainedWith(handle) : \A j \in DrainedWith(handle) : j <= i].asset

MeshNewStep == Len(mesh_calls') = Len(mesh_calls) + 1
LastCall == mesh_calls[Len(mesh_calls)]

C15_MissingMeshHandlePanics ==
    [][MeshNewStep =>
          IF LastCall'.handle \notin DOMAIN loaded_mesh_data
          THEN /\ main_pc' = "panicked"
               /\ LastCall'.result = "Mesh handle not found in asset loader"
               /\ UNCHANGED << meshes, gl_objects, table_vars >>
          ELSE /\ LastCall'.result # "Mesh handle not found in asset loader"
               /\ LastCall'.result = "ok" =>
                     /\ main_pc' = "idle"
                     /\ meshes' = Append(meshes, meshes'[Len(meshes')])
                     /\ meshes'[Len(meshes')].handle = LastCall'.handle
                     /\ meshes'[Len(meshes')].kind = LastCall'.kind]_vars

\* a mesh was constructed for a handle of the table, then a call with a handle
\* the table lacks panicked
C15_Witness ==
    /\ main_pc = "panicked"
    /\ Len(meshes) = 1
    /\ Len(mesh_calls) = 2
    /\ mesh_calls[1].result = "ok"
    /\ mesh_calls[1].handle \in DOMAIN loaded_mesh_data
    /\ mesh_calls[2].handle \notin DOMAIN loaded_mesh_data
    /\ gl_objects = 3 * Len(meshes[1].primitives)

(***************************************************************************)
(* C16  A successful mesh request mints exactly one Mesh handle for the    *)
(* whole file, however many primitives it has: the worker's mesh mint      *)
(* advances the counter by 1, and exactly one handle, the one published,   *)
(* was minted for the request.  The published LoadedMesh holds exactly one *)
(* LoadedPrimitive per primitive of the file, in the file's order.         *)
(***************************************************************************)
MintsFor(rid) == { i \in DOMAIN minted : minted[i].rid = rid }
SourcePrimitives(path) == FileSystem(path).val.primitives

C16_OneHandlePerMeshFile ==
    /\ [](\A i \in DOMAIN published :
             published[i].asset.kind = "Mesh" =>
                LET item == published[i]
                    source == SourcePrimitives(item.asset.path) IN
                /\ Cardinality(MintsFor(item.rid)) = 1
                /\ \A m \in MintsFor(item.rid) : minted[m].handle = item.handle
                /\ item.handle.kind = "Mesh"
                /\ Len(item.asset.primitives) = Len(source)
                /\ \A k \in DOMAIN source :
                      /\ item.asset.primitives[k].vertex_data.positions =
                            source[k].positions.val
                      /\ item.asset.primitives[k].vertex_data.normals = source[k].normals)
    /\ [][worker_pc = "mesh_incr" /\ WorkerStep =>
            next_handle_id' = next_handle_id + 1]_vars

\* a mesh of two different primitives was published and the counter went on by one
C16_Witness ==
    \E i \in DOMAIN published :
       /\ published[i].asset.kind = "Mesh"
       /\ Len(published[i].asset.primitives) = 2
       /\ published[i].asset.primitives[1] # published[i].asset.primitives[2]
       /\ minted = << [handle |-> published[i].handle, by |-> "worker",
                       rid |-> published[i].rid] >>
       /\ next_handle_id = 1

(***************************************************************************)
(* C17  The resource tables are touched only by the main context: no step  *)
(* of the worker changes loaded_texture_data, loaded_mesh_data,            *)
(* loaded_material_data or compiled_shader_programs, nor anything else the *)
(* main context owns, and no step of the main context changes what the     *)
(* worker owns.  Of the data both can reach, the handle counter is the     *)
(* only one both modify; the two channels connect them, each end doing     *)
(* only its own operation: the main context sends requests and receives    *)
(* results, the worker receives requests and sends results.                *)
(***************************************************************************)
MainStep == ~WorkerStep
Received(queue, queue_after) == queue # <<>> /\ queue_after = Tail(queue)
Sent(queue, queue_after) ==
    /\ Len(queue_after) = Len(queue) + 1
    /\ SubSeq(queue_after, 1, Len(queue)) = queue

C17_TablesOwnedByMain ==
    /\ [][WorkerStep => UNCHANGED << table_vars, main_vars, mesh_vars, app_vars >>]_vars
    /\ [][MainStep => UNCHANGED worker_vars]_vars
    /\ [][WorkerStep =>
            /\ request_queue' = request_queue \/ Received(request_queue, request_queue')
            /\ result_queue' = result_queue \/ Sent(result_queue, result_queue')]_vars
    /\ [][MainStep =>
            /\ request_queue' = request_queue \/ Sent(request_queue, request_queue')
            /\ result_queue' = result_queue \/ Received(result_queue, result_queue')]_vars

\* the worker and the main context have both advanced the counter, and the main
\* context has written a table
C17_Witness ==
    /\ \E i \in DOMAIN minted : minted[i].by = "worker"
    /\ \E i \in DOMAIN minted : minted[i].by = "main"
    /\ loaded_texture_data # <<>> \/ loaded_mesh_data # <<>>

(***************************************************************************)
(* C18  With several threads submitting concurrently through               *)
(* request_textures_parallel, every submitted request reaches the worker   *)
(* exactly once: every element of the slice is sent once, what the worker  *)
(* has received followed by what is queued is what was sent, nothing       *)
(* twice, and in the end the worker has received every element.  The       *)
(* requests of one submitter are received in the order in which that       *)
(* submitter sent them.  (Between submitters any order can occur: see the  *)
(* witness.)                                                               *)
(***************************************************************************)
SlotOf(rid) == sent_by[rid].slot
SubmitterOf(rid) == sent_by[rid].thread
SentBy(thread) == SelectSeq(sent_by, LAMBDA e : e.thread = thread)
ReceivedOf(thread) ==
    SelectSeq([k \in DOMAIN processed |-> sent_by[processed[k]]],
              LAMBDA e : e.thread = thread)

C18_ParallelSubmissionOrder ==
    /\ [](/\ Len(sent_by) = Len(submitted)
          /\ \A i, j \in DOMAIN sent_by : i # j => sent_by[i].slot # sent_by[j].slot
          /\ \A i \in DOMAIN submitted :
                /\ submitted[i].path = par_requests[SlotOf(i)][1]
                /\ submitted[i].name = par_requests[SlotOf(i)][2]
          /\ \A i, j \in DOMAIN processed : i # j => processed[i] # processed[j]
          /\ \A k \in DOMAIN processed : processed[k] \in DOMAIN submitted
          /\ \A k \in DOMAIN request_queue :
                /\ request_queue[k] \in Range(submitted)
                /\ request_queue[k].rid \notin Range(processed)
          /\ Len(processed) + Len(request_queue) = Len(submitted)
          /\ \A thread \in RayonThreads :
                ReceivedOf(thread) = SubSeq(SentBy(thread), 1, Len(ReceivedOf(thread))))
    /\ <>(\A slot \in 1..MaxParallel :
             \E k \in DOMAIN processed : SlotOf(processed[k]) = slot)

\* two submitters: the later element of the slice was sent by one thread and
\* received before the earlier element, which the other thread sent
C18_Witness ==
    /\ Len(processed) = MaxParallel
    /\ \E i, j \in DOMAIN processed :
          /\ i < j
          /\ SlotOf(processed[i]) > SlotOf(processed[j])
          /\ SubmitterOf(processed[i]) # SubmitterOf(processed[j])
    /\ \E i, j \in DOMAIN processed :
          /\ i < j
          /\ SubmitterOf(processed[i]) = SubmitterOf(processed[j])

(***************************************************************************)
(* C19  determine_layouts emits its entries in the fixed order position,   *)
(* normals, tangents, each texcoord set in index order, each color set in  *)
(* index order, joints, weights (only the present ones); the slot indices  *)
(* are 0, 1, 2, ... without gaps in that order; the component counts are   *)
(* 3, 3, 4, 2, 3 or 4 (Rgb / Rgba), 4, 4; each entry's byte offset is the  *)
(* sum of component count x scalar size over all earlier entries, the      *)
(* scalar size being 4 for floats and 2 for the 16-bit joints.             *)
(***************************************************************************)
Attribute(name, size, gl_type) == [name |-> name, size |-> size, gl_type |-> gl_type]

\* the attributes present in v, in the order the claim fixes
PresentAttributes(v) ==
    << Attribute("position", 3, "FLOAT") >>
       \o (IF v.normals.some THEN << Attribute("normals", 3, "FLOAT") >> ELSE <<>>)
       \o (IF v.tangents.some THEN << Attribute("tangents", 4, "FLOAT") >> ELSE <<>>)
       \o [i \in DOMAIN v.texcoords |-> Attribute("texcoord", 2, "FLOAT")]
       \o [i \in DOMAIN v.colors |->
              Attribute("color", IF v.colors[i].format = "Rgb" THEN 3 ELSE 4, "FLOAT")]
       \o (IF v.joints.some THEN << Attribute("joints", 4, "UNSIGNED_SHORT") >> ELSE <<>>)
       \o (IF v.weights.some THEN << Attribute("weights", 4, "FLOAT") >> ELSE <<>>)

ScalarSize(gl_type) == IF gl_type = "FLOAT" THEN 4 ELSE 2
ByteSize(entry) == entry.size * ScalarSize(entry.gl_type)

RECURSIVE BytesBefore(_, _)
BytesBefore(entries, k) ==
    IF k <= 1 THEN 0 ELSE BytesBefore(entries, k - 1) + ByteSize(entries[k - 1])

C19_LayoutOrderAndOffsets ==
    layouts # <<>> =>
       LET present == PresentAttributes(vertex_data) IN
       /\ Len(layouts) = Len(present)
       /\ \A k \in DOMAIN layouts :
             /\ layouts[k].index = k - 1
             /\ layouts[k].size = present[k].size
             /\ layouts[k].gl_type = present[k].gl_type
             /\ layouts[k].offset = BytesBefore(present, k)

\* every attribute is present, with two texcoord sets and an Rgb and an Rgba
\* color set: nine entries, the weights at byte 92
C19_Witness ==
    /\ vertex_data.normals.some
    /\ vertex_data.tangents.some
    /\ Len(vertex_data.texcoords) = 2
    /\ Len(vertex_data.colors) = 2
    /\ vertex_data.colors[1].format = "Rgb"
    /\ vertex_data.colors[2].format = "Rgba"
    /\ vertex_data.joints.some
    /\ vertex_data.weights.some
    /\ Len(layouts) = 9
    /\ layouts[8].gl_type = "UNSIGNED_SHORT"
    /\ layouts[9].offset = 92

(***************************************************************************)
(* C20  calculate_stride returns the byte offset of the last layout entry  *)
(* plus that entry's own byte size (component count x 4 for float, x 2 for *)
(* unsigned short); for a sequence produced by determine_layouts that is   *)
(* the sum of all entries' byte sizes (32 for positions + normals + one    *)
(* texcoord set, 12 for positions only); given the empty sequence it       *)
(* fails.                                                                  *)
(***************************************************************************)
PositionsNormalsOneTexcoord(v) ==
    /\ v.normals.some
    /\ ~v.tangents.some
    /\ Len(v.texcoords) = 1
    /\ v.colors = <<>>
    /\ ~v.joints.some
    /\ ~v.weights.some

PositionsOnly(v) ==
    /\ ~v.normals.some
    /\ ~v.tangents.some
    /\ v.texcoords = <<>>
    /\ v.colors = <<>>
    /\ ~v.joints.some
    /\ ~v.weights.some

C20_StrideIsEndOfLastEntry ==
    \A c \in DOMAIN stride_calls :
       LET call == stride_calls[c] IN
       IF call.layouts = <<>>
       THEN ~call.stride.ok
       ELSE LET last == call.layouts[Len(call.layouts)] IN
            /\ call.stride.ok
            /\ call.stride.val = last.offset + ByteSize(last)
            /\ call.layouts = determine_layouts(vertex_data) =>
                  /\ call.stride.val =
                        BytesBefore(call.layouts, Len(call.layouts) + 1)
                  /\ PositionsNormalsOneTexcoord(vertex_data) => call.stride.val = 32
                  /\ PositionsOnly(vertex_data) => call.stride.val = 12

\* calculate_stride failed on the empty slice, then returned 32 for the layouts
\* of positions + normals + one texcoord set
C20_Witness ==
    /\ PositionsNormalsOneTexcoord(vertex_data)
    /\ Len(stride_calls) = 2
    /\ stride_calls[1].layouts = <<>>
    /\ stride_calls[1].stride = Err("No layouts provided to calculate stride!")
    /\ stride_calls[2].layouts = layouts
    /\ Len(layouts) = 3
    /\ stride_calls[2].stride = Ok(32)

(***************************************************************************)
(* C21  As stated: for every VertexData with N positions and any subset of *)
(* the optional attributes present, interleave_vertex_data returns a       *)
(* buffer of exactly N x (calculate_stride(determine_layouts(v)) / 4)      *)
(* floats, one row per vertex, the fields of a row in the order of the     *)
(* derived layout.                                                         *)
(***************************************************************************)
FloatsPerVertex(v) == calculate_stride(determine_layouts(v)).val \div SizeOfF32

\* the elements of the attributes present in v, in the order of PresentAttributes
AttributeElements(v) ==
    << v.positions >>
       \o (IF v.normals.some THEN << v.normals.val >> ELSE <<>>)
       \o (IF v.tangents.some THEN << v.tangents.val >> ELSE <<>>)
       \o [k \in DOMAIN v.texcoords |-> v.texcoords[k]]
       \o [k \in DOMAIN v.colors |-> v.colors[k].values]
       \o (IF v.joints.some THEN << v.joints.val >> ELSE <<>>)
       \o (IF v.weights.some THEN << v.weights.val >> ELSE <<>>)

\* buffer holds one row per vertex of v, every field where the layout puts it
RowsFollowLayout(v, buffer) ==
    LET entries == determine_layouts(v)
        width == FloatsPerVertex(v) IN
    /\ Len(buffer) = Len(v.positions) * width
    /\ \A i \in DOMAIN v.positions, k \in DOMAIN entries :
          \A c \in 1..entries[k].size :
             buffer[(i - 1) * width + entries[k].offset \div SizeOfF32 + c] =
                AttributeElements(v)[k][i]

C21_InterleavedSizeAnySubset ==
    interleaved.some =>
       /\ interleaved.val.ok
       /\ RowsFollowLayout(vertex_data, interleaved.val.val)

(***************************************************************************)
(* C21 amended.  For every VertexData with N positions and any subset of   *)
(* normals, tangents, texcoord sets and color sets present, joints and     *)
(* weights absent, interleave_vertex_data returns a buffer of exactly      *)
(* N x (calculate_stride(determine_layouts(v)) / 4) floats, one row per    *)
(* vertex, the fields of a row in the order of the derived layout.         *)
(***************************************************************************)
Skinned(v) == v.joints.some \/ v.weights.some

C21_InterleavedSizeWithoutSkinning ==
    (interleaved.some /\ ~Skinned(vertex_data)) =>
       /\ interleaved.val.ok
       /\ RowsFollowLayout(vertex_data, interleaved.val.val)

\* two vertices with normals, tangents, two texcoord sets, an Rgb and an Rgba
\* color set: 21 floats per vertex
C21_Witness ==
    /\ interleaved.some
    /\ interleaved.val.ok
    /\ Len(vertex_data.positions) = 2
    /\ vertex_data.normals.some
    /\ vertex_data.tangents.some
    /\ Len(vertex_data.texcoords) = 2
    /\ Len(vertex_data.colors) = 2
    /\ vertex_data.colors[1].format = "Rgb"
    /\ vertex_data.colors[2].format = "Rgba"
    /\ ~Skinned(vertex_data)
    /\ Len(interleaved.val.val) = 42

(***************************************************************************)
(* C22  interleave_vertex_data refuses to produce a buffer whenever joints *)
(* or weights are present: it reports the unimplemented-feature error and  *)
(* returns no buffer, for every vertex count.                              *)
(***************************************************************************)
C22_SkinningRefused ==
    (interleaved.some /\ Skinned(vertex_data)) =>
       /\ ~interleaved.val.ok
       /\ interleaved.val.err =
             "interleave_vertex_data: joints/weights not implemented yet"

(***************************************************************************)
(* C23  determine_layouts is deterministic and depends only on which       *)
(* attributes are present: any two calls on VertexData with the same set   *)
(* of present attributes (same texcoord count, same color variants) return *)
(* the same sequence of slot index, component count, scalar type and       *)
(* offset, whatever the attribute values and the vertex count.             *)
(***************************************************************************)
Slots(entries) ==
    [k \in DOMAIN entries |->
        << entries[k].index, entries[k].size, entries[k].gl_type, entries[k].offset >>]

C23_LayoutsDependOnShapeOnly ==
    \A a, b \in layout_calls :
       ShapeOf(a.vertex_data) = ShapeOf(b.vertex_data)
          => Slots(a.layouts) = Slots(b.layouts)

\* two calls on data with every attribute, with different values and different
\* numbers of vertices, none of them empty
C23_Witness ==
    \E a, b \in layout_calls :
       /\ ShapeOf(a.vertex_data) = ShapeOf(b.vertex_data)
       /\ Len(a.vertex_data.positions) = 1
       /\ Len(b.vertex_data.positions) = 2
       /\ a.vertex_data.positions[1] # b.vertex_data.positions[1]
       /\ Len(a.layouts) = 9
       /\ Slots(a.layouts) = Slots(b.layouts)

(***************************************************************************)
(* C24  As stated: StaticMesh::new and DynamicMesh::new on a resolvable    *)
(* handle create exactly one primitive instance per primitive of the       *)
(* loaded mesh, the i-th tagged primitive_index = i and carrying render    *)
(* data built from that primitive's own layout, stride and interleaved     *)
(* vertices, with an empty index list when the primitive has no indices;   *)
(* the instance starts with translation (0,0,0), rotation (0,0,0) and      *)
(* scale (1,1,1), and the resource tables are not modified.                *)
(***************************************************************************)
Resolvable == LastCall'.handle \in DOMAIN loaded_mesh_data

\* the call has returned a mesh with one instance per primitive of the loaded mesh
OneInstancePerPrimitive ==
    LET loaded_mesh == loaded_mesh_data[LastCall'.handle]
        mesh == meshes'[Len(meshes')] IN
    /\ LastCall'.result = "ok"
    /\ meshes' = Append(meshes, mesh)
    /\ mesh.kind = LastCall'.kind
    /\ mesh.handle = LastCall'.handle
    /\ Len(mesh.primitives) = Len(loaded_mesh.primitives)
    /\ \A i \in DOMAIN mesh.primitives :
          LET primitive == loaded_mesh.primitives[i]
              render_data == mesh.primitives[i].render_data IN
          /\ mesh.primitives[i].primitive_index = i - 1
          /\ render_data.some
          /\ render_data.val.layouts = determine_layouts(primitive.vertex_data)
          /\ render_data.val.stride = calculate_stride(render_data.val.layouts).val
          /\ render_data.val.vbo \notin DOMAIN gl_buffers
          /\ gl_buffers'[render_data.val.vbo] =
                interleave_vertex_data(primitive.vertex_data).val
          /\ render_data.val.ebo.some
          /\ render_data.val.ebo.val \notin DOMAIN gl_buffers
          /\ gl_buffers'[render_data.val.ebo.val] =
                IF primitive.indices.some THEN primitive.indices.val ELSE <<>>
    /\ mesh.translation = <<0, 0, 0>>
    /\ mesh.rotation = <<0, 0, 0>>
    /\ mesh.scale = <<1, 1, 1>>
    /\ UNCHANGED table_vars

C24_InstancePerPrimitive ==
    [][(MeshNewStep /\ Resolvable) => OneInstancePerPrimitive]_vars

(***************************************************************************)
(* C24 amended.  The same, on a resolvable handle whose loaded mesh has no *)
(* primitive with joints or weights.  When a primitive of the loaded mesh  *)
(* that has vertices carries joints or weights, the call panics in         *)
(* interleave_vertex_data and returns no mesh; the tables stay as they     *)
(* were.                                                                   *)
(***************************************************************************)
SkinnedPrimitives(loaded_mesh) ==
    { i \in DOMAIN loaded_mesh.primitives : Skinned(loaded_mesh.primitives[i].vertex_data) }

C24_InstancePerPrimitiveWithoutSkinning ==
    [][(MeshNewStep /\ Resolvable) =>
          LET loaded_mesh == loaded_mesh_data[LastCall'.handle] IN
          /\ SkinnedPrimitives(loaded_mesh) = {} => OneInstancePerPrimitive
          /\ (\E i \in SkinnedPrimitives(loaded_mesh) :
                 loaded_mesh.primitives[i].vertex_data.positions # <<>>)
                => /\ LastCall'.result =
                         "interleave_vertex_data: joints/weights not implemented yet"
                   /\ main_pc' = "panicked"
                   /\ UNCHANGED << meshes, table_vars >>]_vars

\* a StaticMesh of two primitives, the first without indices, the second with,
\* over different layouts; then a DynamicMesh for the same handle
C24_Witness ==
    /\ Len(meshes) = 2
    /\ meshes[1].kind = "StaticMesh"
    /\ meshes[2].kind = "DynamicMesh"
    /\ meshes[1].handle = meshes[2].handle
    /\ Len(meshes[1].primitives) = 2
    /\ LET first == meshes[1].primitives[1].render_data.val
           second == meshes[1].primitives[2].render_data.val IN
       /\ gl_buffers[first.ebo.val] = <<>>
       /\ gl_buffers[second.ebo.val] = <<1, 0, 1>>
       /\ Len(first.layouts) = 6
       /\ Len(second.layouts) = 3
       /\ Len(gl_buffers[first.vbo]) = 2 * 18
       /\ Len(gl_buffers[second.vbo]) = 2 * 8
    /\ gl_objects = 12

(***************************************************************************)
(* C25  A primitive whose vertex colors use 16-bit channels is not         *)
(* silently dropped: no mesh is published in which a primitive read from   *)
(* a source primitive with 16-bit colors simply has no color set (the      *)
(* load fails, or the primitive is skipped, instead).                      *)
(***************************************************************************)
SixteenBitColors(p) == p.colors.some /\ p.colors.val.format \in {"RgbU16", "RgbaU16"}

C25_SixteenBitColorsNotDropped ==
    \A i \in DOMAIN published :
       published[i].asset.kind = "Mesh" =>
          LET source == SourcePrimitives(published[i].asset.path) IN
          ~ \E k \in DOMAIN source :
               /\ SixteenBitColors(source[k])
               /\ k \in DOMAIN published[i].asset.primitives
               /\ published[i].asset.primitives[k].vertex_data.positions =
                     source[k].positions.val
               /\ published[i].asset.primitives[k].vertex_data.colors = <<>>

(***************************************************************************)
(* C26  A published LoadedTexture has the source image's width and height, *)
(* a pixel buffer of exactly width x height x 4 bytes, and its rows in     *)
(* reversed vertical order: row r of the buffer is row (height - 1 - r) of *)
(* the source image, so row 0 is the source's bottom row.                  *)
(***************************************************************************)
\* row r (from 0) of a buffer of rows of width pixels, four bytes each
BufferRow(data, width, r) == SubSeq(data, r * width * 4 + 1, (r + 1) * width * 4)
\* row r (from 0) of the image file, as RGBA bytes
SourceRow(image, r) == RowRgba8(image.rows[r + 1])

C26_TextureFlippedVertically ==
    \A i \in DOMAIN published :
       published[i].asset.kind = "Texture" =>
          LET texture == published[i].asset
              image == FileSystem(texture.path).val IN
          /\ texture.width = image.width
          /\ texture.height = image.height
          /\ Len(texture.data) = texture.width * texture.height * 4
          /\ \A r \in 0..(texture.height - 1) :
                BufferRow(texture.data, texture.width, r) =
                   SourceRow(image, texture.height - 1 - r)

\* the texture of the 2 x 3 image was published: 24 bytes, the first row being
\* the last row of the file
C26_Witness ==
    \E i \in DOMAIN published :
       /\ published[i].asset.kind = "Texture"
       /\ published[i].asset.width = 2
       /\ published[i].asset.height = 3
       /\ Len(published[i].asset.data) = 24
       /\ BufferRow(published[i].asset.data, 2, 0) = << 30, 30, 30, 255, 31, 31, 31, 255 >>
       /\ BufferRow(published[i].asset.data, 2, 2) = << 10, 10, 10, 255, 11, 11, 11, 255 >>

(***************************************************************************)
(* C27  The handle counter starts at 0 and every mint returns the current  *)
(* value and then increases the counter by exactly 1, atomically under the *)
(* lock: in every reachable state the counter equals the number of handles *)
(* minted so far, the ids issued are exactly 0 .. counter-1 in mint order  *)
(* without gaps or repeats, the holder of the lock holds the current value *)
(* as its handle's id, and the counter changes only by the holder's        *)
(* increment, which releases the lock.                                     *)
(***************************************************************************)
C27_CounterCountsMints ==
    /\ [](/\ next_handle_id = Len(minted)
          /\ \A i \in DOMAIN minted : minted[i].handle.id = i - 1
          /\ counter_lock = "worker" => worker_handle.id = next_handle_id
          /\ counter_lock = "main" => main_handle.id = next_handle_id)
    /\ [][next_handle_id' # next_handle_id =>
            /\ next_handle_id' = next_handle_id + 1
            /\ counter_lock # "none"
            /\ counter_lock' = "none"
            /\ minted' = Append(minted, minted'[Len(minted')])
            /\ minted'[Len(minted')].handle.id = next_handle_id
            /\ minted'[Len(minted')].by = counter_lock]_vars

\* the worker has minted twice, the main context in between; a fourth handle could
\* not be minted within the bounds
C27_Witness ==
    /\ next_handle_id = MaxRequests + MaxMainMints
    /\ Len(minted) >= 3
    /\ minted[1].by = "worker"
    /\ minted[2].by = "main"
    /\ minted[3].by = "worker"
    /\ minted[1].handle.kind # minted[3].handle.kind

(***************************************************************************)
(* C28  The mesh-selection path of the editor never triggers the "handle   *)
(* not found" failure: every StaticMesh::new call issued from the "Add >   *)
(* Mesh > Static Mesh" menu names a handle that is a key of                *)
(* loaded_mesh_data, and none of these calls ends with the message "Mesh   *)
(* handle not found in asset loader".                                      *)
(***************************************************************************)
C28_MenuNeverMisses ==
    \A i \in DOMAIN mesh_calls :
        /\ mesh_calls[i].kind = "StaticMesh"
        /\ mesh_calls[i].handle \in DOMAIN loaded_mesh_data
        /\ mesh_calls[i].result # "Mesh handle not found in asset loader"

\* a mesh was added from the menu while another mesh handle, issued by the worker
\* after the application's poll, has no entry in the table
C28_Witness ==
    /\ static_meshes # <<>>
    /\ Len(terminal_lines) = Len(static_meshes)
    /\ mesh_calls # <<>>
    /\ LastCall.result = "ok"
    /\ \E i \in DOMAIN minted :
          /\ minted[i].handle.kind = "Mesh"
          /\ minted[i].handle \notin DOMAIN loaded_mesh_data

(***************************************************************************)
(* C29  Every item the worker publishes has matching kinds: a Texture      *)
(* handle is paired with a Texture asset and a Mesh handle with a Mesh     *)
(* asset, and no Material or Shader item is ever published.  The same      *)
(* holds of everything in the result queue and of everything poll_loaded   *)
(* hands out, so the integration loop handles every pair it is given: its  *)
(* unwrap() calls and its unimplemented!() arm never panic.                *)
(***************************************************************************)
MatchingKinds(item) ==
    /\ item.handle.kind \in {"Texture", "Mesh"}
    /\ item.asset.kind = item.handle.kind

C29_PublishedKindsMatch ==
    /\ [](/\ \A i \in DOMAIN published : MatchingKinds(published[i])
          /\ \A i \in DOMAIN result_queue : MatchingKinds(result_queue[i])
          /\ \A i \in DOMAIN loaded : MatchingKinds(loaded[i])
          /\ main_pc # "panicked")
    /\ [][main_pc = "integrate" /\ main_pc' # "integrate" =>
            /\ IntegratedPrefix(loaded) = loaded
            /\ main_pc' = "idle"]_vars

\* a texture and a mesh were published, drained and integrated
C29_Witness ==
    /\ main_pc = "idle"
    /\ loaded_texture_data # <<>>
    /\ loaded_mesh_data # <<>>
    /\ \E i, j \in DOMAIN published :
          /\ published[i].handle.kind = "Texture"
          /\ published[j].handle.kind = "Mesh"

(***************************************************************************)
(* C30  While the worker is the only issuer of handles, the ids of the     *)
(* handles poll_loaded returns, taken over all its calls in order, are     *)
(* strictly increasing, and of two requests that were published the one    *)
(* the worker processed earlier has the smaller id: the order of the ids   *)
(* is the order of completion.                                             *)
(***************************************************************************)
WorkerOnlyIssuer == \A i \in DOMAIN minted : minted[i].by = "worker"

StrictlyIncreasingIds(items) ==
    \A i, j \in DOMAIN items : i < j => items[i].handle.id < items[j].handle.id

ProcessedAt(rid) == CHOOSE k \in DOMAIN processed : processed[k] = rid

C30_HandleOrderIsCompletionOrder ==
    WorkerOnlyIssuer =>
        /\ StrictlyIncreasingIds(polled \o Taken)
        /\ StrictlyIncreasingIds(published)
        /\ \A i, j \in DOMAIN published :
              ProcessedAt(published[i].rid) < ProcessedAt(published[j].rid)
                  <=> published[i].handle.id < published[j].handle.id

\* two results handed out by two successive polls, every handle issued by the worker
C30_Witness ==
    /\ WorkerOnlyIssuer
    /\ main_pc = "poll_loaded"
    /\ Len(polled) = 1
    /\ Len(loaded) = 1
    /\ polled[1].handle.id = 0
    /\ loaded[1].handle.id = 1

(***************************************************************************)
(* C31  Each published result belongs to exactly one request and carries   *)
(* that request's data: a texture result comes from a LoadTexture request  *)
(* and has its path and display name; a mesh result comes from a LoadMesh  *)
(* request, has its path, and its name is the request's display name, not  *)
(* the file name load_gltf_full put there.  No two results belong to the   *)
(* same request, and what poll_loaded hands out is the same.               *)
(***************************************************************************)
RequestOf(item) == submitted[item.rid]

CarriesRequestData(item) ==
    /\ item.rid \in DOMAIN submitted
    /\ RequestOf(item).kind = IF item.asset.kind = "Texture" THEN "LoadTexture"
                              ELSE "LoadMesh"
    /\ item.asset.path = RequestOf(item).path
    /\ item.asset.name = RequestOf(item).name

C31_ResultCarriesRequestData ==
    /\ \A i \in DOMAIN published : CarriesRequestData(published[i])
    /\ \A i, j \in DOMAIN published : published[i].rid = published[j].rid => i = j
    /\ \A i \in DOMAIN polled : CarriesRequestData(polled[i])

\* a texture and a mesh were published for requests with different display names,
\* and the mesh's name is not the file name
C31_Witness ==
    /\ Len(published) = 2
    /\ Len(polled) = 2
    /\ \E i, j \in DOMAIN published :
          /\ published[i].asset.kind = "Texture"
          /\ published[j].asset.kind = "Mesh"
          /\ published[i].asset.name # published[j].asset.name
          /\ published[j].asset.name # load_gltf_full(published[j].asset.path).val.name

(***************************************************************************)
(* C32  When result_tx.send fails because the result receiver has been     *)
(* dropped, the worker leaves its loop at once.  At that moment the handle *)
(* counter has already been advanced for the asset; the asset is never     *)
(* published or handed out by poll_loaded; and every request still in the  *)
(* request queue stays there, unprocessed, for ever.                       *)
(***************************************************************************)
SendFails == worker_pc \in {"texture_send", "mesh_send"} /\ ~loader_alive

\* requests for which the worker minted a handle and then left without publishing
LostAtSend ==
    { minted[i].rid : i \in { j \in DOMAIN minted :
                                /\ minted[j].by = "worker"
                                /\ worker_pc = "done"
                                /\ Count(published, minted[j].rid) = 0 } }

C32_SendFailureEndsWorker ==
    /\ [](/\ SendFails =>
               /\ worker_handle.id < next_handle_id
               /\ \E i \in DOMAIN minted : /\ minted[i].handle = worker_handle
                                           /\ minted[i].rid = request.rid
          /\ \A rid \in LostAtSend :
               /\ Count(polled, rid) = 0
               /\ Count(result_queue, rid) = 0
               /\ Count(loaded, rid) = 0)
    /\ [][SendFails /\ WorkerStep =>
            /\ worker_pc' = "done"
            /\ UNCHANGED << request_queue, result_queue, next_handle_id, processed,
                            published, failed >>]_vars
    /\ [][worker_pc = "done" =>
            /\ worker_pc' = "done"
            /\ UNCHANGED << request_queue, processed, published, minted >>]_vars

\* the worker has left on a failed send: a handle is spent, nothing was published
\* and a request is left in the queue
C32_Witness ==
    /\ worker_pc = "done"
    /\ LostAtSend # {}
    /\ next_handle_id = 1
    /\ published = <<>>
    /\ request_queue # <<>>

(***************************************************************************)
(* C33  The resource tables only grow and their entries are stable: no     *)
(* step removes a key from loaded_texture_data, loaded_mesh_data,          *)
(* loaded_material_data or compiled_shader_programs, and no step changes   *)
(* the value under a key that is present, so a handle that resolved once   *)
(* resolves to the same asset in every later state; that asset is the one  *)
(* the worker published under the handle.                                  *)
(***************************************************************************)
GrowsStable(table, table_after) ==
    \A key \in DOMAIN table :
        /\ key \in DOMAIN table_after
        /\ table_after[key] = table[key]

PublishedUnder(handle) ==
    { published[i].asset : i \in { j \in DOMAIN published : published[j].handle = handle } }

C33_TablesGrowAndStayStable ==
    /\ [][/\ GrowsStable(loaded_texture_data, loaded_texture_data')
          /\ GrowsStable(loaded_mesh_data, loaded_mesh_data')
          /\ GrowsStable(loaded_material_data, loaded_material_data')
          /\ GrowsStable(compiled_shader_programs, compiled_shader_programs')]_vars
    /\ [](/\ \A h \in DOMAIN loaded_texture_data :
                PublishedUnder(h) = {loaded_texture_data[h]}
          /\ \A h \in DOMAIN loaded_mesh_data :
                PublishedUnder(h) = {loaded_mesh_data[h]})

\* two meshes have been integrated; the handle the main context issued for itself
\* lies between theirs and has no entry
C33_Witness ==
    /\ main_pc = "idle"
    /\ Cardinality(DOMAIN loaded_mesh_data) = 2
    /\ \E i \in DOMAIN minted : /\ minted[i].by = "main"
                                /\ minted[i].handle.id = 1

(***************************************************************************)
(* C34  The system is deadlock-free.  The worker holds the handle          *)
(* counter's lock exactly between its read and its increment, so never     *)
(* while it receives a request, decodes or sends a result, and it never    *)
(* touches the AssetLoader mutex.  The main context takes the counter's    *)
(* lock only with the AssetLoader mutex in hand and holds it exactly       *)
(* between its read and its increment.  Whoever holds a lock can take its  *)
(* next step, so no state is reachable in which the worker and the main    *)
(* context wait on each other.                                             *)
(***************************************************************************)
WorkerWaits == worker_pc \in {"texture_lock", "mesh_lock"} /\ counter_lock # "none"

MainWaits == main_pc = "idle" /\ loader_lock = MainGuard /\ counter_lock # "none"

C34_DeadlockFree ==
    /\ [](/\ counter_lock = "worker" <=> worker_pc \in {"texture_incr", "mesh_incr"}
          /\ counter_lock = "main" <=> main_pc = "generate_incr"
          /\ counter_lock = "main" => loader_lock = MainGuard
          /\ counter_lock = "worker" => ENABLED (WorkerTextureIncr \/ WorkerMeshIncr)
          /\ counter_lock = "main" => ENABLED (Guarded /\ main_pc' = "idle")
          /\ loader_lock.some /\ loader_lock # MainGuard => ENABLED par_request_texture
          /\ loader_lock = MainGuard => ENABLED (Guarded \/ app_unlock)
          /\ ~(WorkerWaits /\ MainWaits))
    /\ [][WorkerStep => UNCHANGED loader_lock]_vars

\* the worker waits for the counter's lock, which the main thread holds inside the
\* AssetLoader mutex, after a rayon thread has held that mutex for its submission
C34_Witness ==
    /\ WorkerWaits
    /\ counter_lock = "main"
    /\ loader_lock = MainGuard
    /\ sent_by # <<>>
    /\ worker_pc = "mesh_lock"

(***************************************************************************)
(* C35  A selection always refers to an existing object: whenever          *)
(* selected_object is StaticMesh(i), i is smaller than the length of the   *)
(* current scene's static_meshes, because static meshes are only ever      *)
(* appended; the properties panel never panics with "Static mesh not       *)
(* found".                                                                 *)
(***************************************************************************)
IsPrefix(s, t) == Len(s) <= Len(t) /\ SubSeq(t, 1, Len(s)) = s

C35_SelectionExists ==
    /\ [](/\ selected_object.some => selected_object.val.index < Len(static_meshes)
          /\ properties_panel # Err("Static mesh not found"))
    /\ [][IsPrefix(static_meshes, static_meshes')]_vars

\* the second of two static meshes is selected and shown in the properties panel
C35_Witness ==
    /\ Len(static_meshes) = 2
    /\ selected_object = Some(SelectedStaticMesh(1))
    /\ properties_panel = Ok(1)

(***************************************************************************)
(* C36  Render data built by StaticRenderData::new or                      *)
(* DynamicRenderData::new always has an element buffer, also when the      *)
(* index list is empty, and its index_count is the number of indices put   *)
(* into that buffer, which is the number of indices of the loaded          *)
(* primitive (none for a primitive without indices).  Hence every draw     *)
(* call StaticMesh::render and DynamicMesh::render issue is draw_elements  *)
(* with that count, never draw_arrays.                                     *)
(***************************************************************************)
IndicesOf(loaded_primitive) ==
    IF loaded_primitive.indices.some THEN loaded_primitive.indices.val ELSE <<>>

C36_AlwaysIndexedDraw ==
    /\ \A m \in DOMAIN meshes :
         LET loaded_mesh == loaded_mesh_data[meshes[m].handle] IN
         \A i \in DOMAIN meshes[m].primitives :
            LET render_data == meshes[m].primitives[i].render_data IN
            /\ render_data.some
            /\ render_data.val.ebo.some
            /\ render_data.val.index_count = Len(gl_buffers[render_data.val.ebo.val])
            /\ render_data.val.index_count = Len(IndicesOf(loaded_mesh.primitives[i]))
    /\ draw_calls.some =>
         /\ Len(draw_calls.val.calls) = Len(meshes[draw_calls.val.mesh].primitives)
         /\ \A k \in DOMAIN draw_calls.val.calls :
               /\ draw_calls.val.calls[k].call = "draw_elements"
               /\ draw_calls.val.calls[k].count =
                     meshes[draw_calls.val.mesh].primitives[k].render_data.val.index_count

\* a mesh with a primitive without indices and a primitive with three indices has
\* been rendered: one indexed draw of no elements, one of three
C36_Witness ==
    /\ draw_calls.some
    /\ \E k \in DOMAIN draw_calls.val.calls : draw_calls.val.calls[k].count = 0
    /\ \E k \in DOMAIN draw_calls.val.calls : draw_calls.val.calls[k].count = 3

(***************************************************************************)
(* C37  The console output buffer is bounded: after any sequence of        *)
(* append_terminal calls terminal_lines holds at most max_terminal_lines   *)
(* (100) lines, and they are the most recently appended lines, in append   *)
(* order: after n calls it holds the lines of the last min(n, 100) calls,  *)
(* oldest first.                                                           *)
(***************************************************************************)
Minimum(a, b) == IF a < b THEN a ELSE b

C37_TerminalBounded ==
    /\ max_terminal_lines = 100
    /\ Len(terminal_lines) = Minimum(terminal_appends, max_terminal_lines)
    /\ \A i \in DOMAIN terminal_lines :
          terminal_lines[i] = Line(terminal_appends - Len(terminal_lines) + i)

\* more lines were appended than the buffer holds: the first two are gone
C37_Witness ==
    /\ terminal_appends = max_terminal_lines + 2
    /\ Len(terminal_lines) = max_terminal_lines
    /\ terminal_lines[1] = Line(3)

====
